---- MODULE Spec2Model ----
(***************************************************************************)
(* Document intake pipeline of AnalystIQ (src/Main-cloud-function.py):     *)
(* the online -> batch extraction state machine with its staging objects,  *)
(* the layered content validator, the document role classifier, the       *)
(* file-set validator and the per-request file loop.                        *)
(*                                                                         *)
(* Texts are strings and are handled character by character, as the code   *)
(* handles them: sanitizing, lower-casing and substring keyword matching   *)
(* are computed, not assumed.  Scores are held in tenths (weight 1.3 is    *)
(* 13) so that the thresholds of the code are integer comparisons.         *)
(***************************************************************************)
EXTENDS Integers, Sequences, FiniteSets, TLC

(***************************************************************************)
(* Text primitives (Python str operations used by the code)                *)
(***************************************************************************)

\* s[i] as a one-character string (positions from 1)
CharAt(s, i) == SubSeq(s, i, i)

UpperToLower ==
  [c \in {"A", "B", "C", "D", "E", "F", "G", "H", "I", "J", "K", "L", "M",
          "N", "O", "P", "Q", "R", "S", "T", "U", "V", "W", "X", "Y", "Z"} |->
     CASE c = "A" -> "a" [] c = "B" -> "b" [] c = "C" -> "c" [] c = "D" -> "d"
       [] c = "E" -> "e" [] c = "F" -> "f" [] c = "G" -> "g" [] c = "H" -> "h"
       [] c = "I" -> "i" [] c = "J" -> "j" [] c = "K" -> "k" [] c = "L" -> "l"
       [] c = "M" -> "m" [] c = "N" -> "n" [] c = "O" -> "o" [] c = "P" -> "p"
       [] c = "Q" -> "q" [] c = "R" -> "r" [] c = "S" -> "s" [] c = "T" -> "t"
       [] c = "U" -> "u" [] c = "V" -> "v" [] c = "W" -> "w" [] c = "X" -> "x"
       [] c = "Y" -> "y" [] c = "Z" -> "z"]

LowerChar(c) == IF c \in DOMAIN UpperToLower THEN UpperToLower[c] ELSE c

\* s[i..j] lower-cased; the range is split in halves to keep the evaluation
\* shallow
RECURSIVE LowerRange(_, _, _)
LowerRange(s, i, j) ==
  IF i > j THEN ""
  ELSE IF i = j THEN LowerChar(CharAt(s, i))
  ELSE LET m == (i + j) \div 2
       IN  LowerRange(s, i, m) \o LowerRange(s, m + 1, j)

\* str.lower()
lower(s) == LowerRange(s, 1, Len(s))

\* kw in s
Contains(s, kw) ==
  \E i \in 1..(Len(s) - Len(kw) + 1) : SubSeq(s, i, i + Len(kw) - 1) = kw

\* the characters of the texts below with ord(char) < 32; form feed stands
\* for the control characters the sanitizer drops (NUL among them)
ControlChars == {"\f", "\n", "\r", "\t"}

\* the characters str.split() and str.strip() treat as white space
IsSpace(c) == c \in {" ", "\t", "\n", "\r", "\f"}

\* len(s.split()): the number of maximal runs of non-space characters
WordCount(s) ==
  Cardinality({i \in 1..Len(s) :
                 /\ ~IsSpace(CharAt(s, i))
                 /\ (i = 1 \/ IsSpace(CharAt(s, i - 1)))})

\* s[i..j] with every run of white space replaced by one space and the
\* leading and trailing white space of s dropped; last is the position of the
\* last character of s that is no white space
RECURSIVE JoinRange(_, _, _, _)
JoinRange(s, last, i, j) ==
  IF i > j THEN ""
  ELSE IF i = j
  THEN IF ~IsSpace(CharAt(s, i)) THEN CharAt(s, i)
       ELSE IF i > 1 /\ ~IsSpace(CharAt(s, i - 1)) /\ i < last THEN " "
       ELSE ""
  ELSE LET m == (i + j) \div 2
       IN  JoinRange(s, last, i, m) \o JoinRange(s, last, m + 1, j)

\* ' '.join(s.split())
JoinSplit(s) ==
  LET nonSpace == {i \in 1..Len(s) : ~IsSpace(CharAt(s, i))}
      last == IF nonSpace = {} THEN 0 ELSE CHOOSE i \in nonSpace : \A j \in nonSpace : j <= i
  IN  JoinRange(s, last, 1, Len(s))

\* the stripped lengths of the lines of s.split('\n'), as a sequence
StrippedLineLengths(s) ==
  LET n == Len(s)
      NL == {i \in 1..n : CharAt(s, i) = "\n"}
      starts == {1} \cup {i + 1 : i \in NL}
      EndOf(a) == LET after == {i \in NL : i >= a}
                  IN  IF after = {} THEN n
                      ELSE (CHOOSE i \in after : \A j \in after : i <= j) - 1
      StripLen(a) == LET body == {i \in a..EndOf(a) : ~IsSpace(CharAt(s, i))}
                     IN  IF body = {} THEN 0
                         ELSE (CHOOSE i \in body : \A j \in body : j <= i)
                              - (CHOOSE i \in body : \A j \in body : i <= j) + 1
      Rank(a) == Cardinality({b \in starts : b <= a})
  IN  [k \in 1..Cardinality(starts) |->
         StripLen(CHOOSE a \in starts : Rank(a) = k)]

\* s[i..j] without the control characters other than \n, \r and \t
RECURSIVE KeepRange(_, _, _)
KeepRange(s, i, j) ==
  IF i > j THEN ""
  ELSE IF i = j
  THEN IF CharAt(s, i) \notin ControlChars \/ CharAt(s, i) \in {"\n", "\r", "\t"}
       THEN CharAt(s, i) ELSE ""
  ELSE LET m == (i + j) \div 2
       IN  KeepRange(s, i, m) \o KeepRange(s, m + 1, j)

\* sanitize_extracted_text
sanitize_extracted_text(text) ==
  IF text = "" THEN "" ELSE JoinSplit(KeepRange(text, 1, Len(text)))

(***************************************************************************)
(* Keyword tables of the validator and of the classifier                   *)
(* (weights in tenths)                                                     *)
(***************************************************************************)

business_context_keywords ==
  {"startup", "founder", "investment", "funding", "pitch deck", "business model",
   "revenue", "market opportunity", "team", "traction", "ceo", "co-founder", "raise",
   "series", "seed", "investors", "board", "advisory", "go-to-market", "financial",
   "vet hospital", "healthcare service", "medical startup"}

personal_indicators ==
  [
    identity_docs |->
      [weight |-> 30,
       keywords |->
        {"passport", "aadhar", "pan number", "ssn", "social security", "driving license",
         "voter id", "national id", "id card", "license number", "national identification",
         "voter card", "id proof"}],
    personal_medical |->
      [weight |-> 25,
       keywords |->
        {"prescription", "medical report", "diagnosis", "discharge summary", "patient",
         "physician", "hospital", "clinic", "medical certificate", "health record",
         "patient id", "doctor"}],
    personal_financial |->
      [weight |-> 28,
       keywords |->
        {"credit card", "debit card", "bank account", "account number", "swift code",
         "ifsc", "epfo", "pf account", "uan number", "provident fund", "bank statement",
         "cheque", "account holder"}],
    personal_legal |->
      [weight |-> 25,
       keywords |->
        {"birth certificate", "marriage certificate", "divorce", "will", "testament",
         "adoption", "death certificate", "legal document"}],
    resume_cv |->
      [weight |-> 35,
       keywords |->
        {"objective:", "work experience", "skills section", "education:", "references",
         "cv", "resume", "curriculum vitae", "employment history", "professional summary"}],
    personal_photos |->
      [weight |-> 15,
       keywords |->
        {"photo", "photograph", "selfie", "portrait", "headshot", "image", "picture"}]
  ]

non_business_indicators ==
  [
    recipe |->
      [weight |-> 25,
       keywords |->
        {"recipe", "ingredients", "cooking", "bake", "fry", "boil", "simmer",
         "instructions"}],
    news_article |->
      [weight |-> 20,
       keywords |->
        {"breaking news", "news article", "associated press", "reuters", "cnn", "bbc",
         "news report", "journalist", "published", "headline"}],
    tutorial |->
      [weight |-> 20,
       keywords |->
        {"tutorial", "how to", "step by step", "beginner guide", "for dummies",
         "instructions"}],
    entertainment |->
      [weight |-> 20,
       keywords |->
        {"movie", "film", "actor", "actress", "screenplay", "plot summary", "netflix",
         "imdb"}],
    meme_cartoon |->
      [weight |-> 25,
       keywords |->
        {"meme", "comic", "cartoon", "joke", "funny", "laugh", "hilarious"}]
  ]

business_indicators ==
  [
    pitch_deck |->
      [weight |-> 15,
       keywords |->
        {"pitch", "startup", "investment opportunity", "funding round", "series a",
         "seed round", "venture capital", "investor", "raise", "seed funding"}],
    financial |->
      [weight |-> 13,
       keywords |->
        {"revenue", "profit", "loss", "balance sheet", "cash flow", "ebitda",
         "financial projection", "forecast", "budget", "burn rate", "arr", "mrr",
         "expenses"}],
    market_analysis |->
      [weight |-> 12,
       keywords |->
        {"market size", "tam", "sam", "sop", "competitive analysis", "market share",
         "competitor", "industry analysis", "market opportunity"}],
    product |->
      [weight |-> 10,
       keywords |->
        {"product", "feature", "technology", "platform", "software", "service", "solution",
         "development", "engineering", "product roadmap"}],
    team |->
      [weight |-> 11,
       keywords |->
        {"founder", "ceo", "team", "experience", "background", "expertise", "advisor",
         "management team", "leadership"}],
    traction |->
      [weight |-> 10,
       keywords |->
        {"user", "customer", "growth", "metric", "kpi", "retention", "acquisition",
         "traction", "milestone", "achievement", "users", "monthly active"}]
  ]

resume_keywords ==
  {"objective:", "work experience", "skills section", "education:", "references", "cv",
   "resume", "curriculum vitae", "employment history"}

pitch_keywords ==
  {"pitch", "startup", "investment opportunity", "funding round", "series a", "seed round",
   "venture capital", "investor", "raise"}

financial_keywords ==
  {"revenue", "profit", "cash flow", "budget", "burn rate", "financial projection",
   "forecast", "balance sheet", "ebitda"}

business_keywords ==
  {"business model", "market analysis", "competitive analysis", "executive summary",
   "operations plan", "go-to-market"}

market_keywords ==
  {"market size", "competitors", "industry analysis", "market share",
   "competitive landscape", "market opportunity"}
(***************************************************************************)
(* Names of staged objects (batch_process_document)                        *)
(***************************************************************************)

\* the characters of object names in code-point order (Python compares
\* strings by code point)
CodePointOrder ==
  " -./0123456789:ABCDEFGHIJKLMNOPQRSTUVWXYZ_abcdefghijklmnopqrstuvwxyz"

Ord(c) == CHOOSE i \in 1..Len(CodePointOrder) : CharAt(CodePointOrder, i) = c

\* a < b for Python strings: decided at the first position where the two
\* differ or one of them has ended
StrLess(a, b) ==
  LET shorter == IF Len(a) < Len(b) THEN Len(a) ELSE Len(b)
      differ == {i \in 1..shorter : CharAt(a, i) # CharAt(b, i)}
  IN  IF differ = {} THEN Len(a) < Len(b)
      ELSE LET i == CHOOSE d \in differ : \A e \in differ : d <= e
           IN  Ord(CharAt(a, i)) < Ord(CharAt(b, i))

\* s.startswith(prefix), s.endswith(suffix)
StartsWith(s, prefix) ==
  Len(prefix) <= Len(s) /\ SubSeq(s, 1, Len(prefix)) = prefix

EndsWith(s, suffix) ==
  Len(suffix) <= Len(s) /\ SubSeq(s, Len(s) - Len(suffix) + 1, Len(s)) = suffix

\* sorted(names): the names of a set in ascending order
Sorted(names) ==
  [k \in 1..Cardinality(names) |->
     CHOOSE x \in names : Cardinality({y \in names : StrLess(y, x)}) = k - 1]

Digit(d) == CharAt("0123456789", d + 1)

\* dt.now().strftime("%Y%m%d-%H%M%S%f") for the instant micro microseconds
\* into the second 2024-01-01 12:00:00 (%f is six digits, zero padded)
strftime(micro) ==
  "20240101-120000"
    \o Digit((micro \div 100000) % 10) \o Digit((micro \div 10000) % 10)
    \o Digit((micro \div 1000) % 10)   \o Digit((micro \div 100) % 10)
    \o Digit((micro \div 10) % 10)     \o Digit(micro % 10)

input_blob_name(timestamp) == "input-" \o timestamp \o ".pdf"

gcs_output_uri_prefix(timestamp) == "output-" \o timestamp

(***************************************************************************)
(* Bounds and the environment: uploads, OCR responses, job outputs         *)
(***************************************************************************)

\* files in one request
MaxFiles == 2

\* the microsecond of the first clock reading, and how far the clock runs
FirstMicrosecond == 8
MaxClockSteps == 3

\* documents of a file set (file-set validator on its own)
MaxSetSize == 3

\* validate_extraction calls on one extraction result
MaxValidations == 2

\* fragments joined into one text (validator on its own)
MaxFragments == 2

\* rate limiter on its own: how far the clock runs, in seconds, and the
\* requests that arrive
MaxSeconds == 60
MaxRequests == 12

MAX_FILE_SIZE == 52428800

ALLOWED_EXTENSIONS == {"pdf", "txt", "docx", "pptx", "doc", "ppt"}

\* the extensions verify_file_magic_bytes knows a signature for
magic_bytes_map == {"pdf", "docx", "xlsx", "pptx", "doc", "ppt"}

Filler30 ==
  "we do it so on by go no if up we do it so on by go no if up we do it so on by go no if up"

PitchDeckText ==
  "Pitch Deck\n\nOur Startup is raising a Seed Round.\fRevenue, team and product traction.\n"
    \o Filler30

ResumeText ==
  "Jane Doe - resume and CV.\tTeam leadership experience in software product development. "
    \o Filler30

UnknownText ==
  "Our platform and software service for every customer shows growth. " \o Filler30

LowConfidenceText == "A product feature list.  " \o Filler30

FinancialModelText ==
  "Financial model: revenue, profit and cash flow forecast with budget. " \o Filler30

BusinessPlanText ==
  "Executive summary of the business model and operations plan: product, customer and growth. "
    \o Filler30

MarketResearchText ==
  "Market size, competitors and market share: customer growth in the industry. "
    \o Filler30

\* two resume keywords and five pitch keywords
ResumePitchText ==
  "Resume and CV of the founder: a pitch of the startup to an investor in the seed round, a funding round. "
    \o Filler30

\* three financial, two business plan and two market keywords
FinancialMarketText ==
  "Revenue, profit and budget of the business model in the executive summary, with market size and market share. "
    \o Filler30

ShortText == "scanned page 1"

\* what the online call returns when it succeeds: the text and the pages
OnlineDocuments ==
  { [text |-> PitchDeckText, pages |-> 12],
    [text |-> ResumeText, pages |-> 2],
    [text |-> UnknownText, pages |-> 3],
    [text |-> LowConfidenceText, pages |-> 1],
    [text |-> ShortText, pages |-> 1],
    [text |-> "", pages |-> 0] }

\* str(e) of the errors the online call raises
OnlineErrors ==
  { "400 Document pages in non-imageless mode exceed the limit: 15 got 40",
    "400 PAGE_LIMIT_EXCEEDED",
    "429 Quota exceeded for online process requests",
    "403 Permission denied on processor",
    "500 Internal error encountered" }

\* the errors of OnlineErrors that the OCR service raises because the document
\* has more pages than the online mode permits
PageLimitErrors ==
  { "400 Document pages in non-imageless mode exceed the limit: 15 got 40",
    "400 PAGE_LIMIT_EXCEEDED" }

\* the files of a request, by position: name, size, whether the bytes start
\* with the signature of the extension
Uploads(i) ==
  { [filename |-> "deck" \o Digit(i) \o ".PDF", file_size |-> 1024, signature_ok |-> TRUE],
    [filename |-> "deck" \o Digit(i) \o ".pdf", file_size |-> 1024, signature_ok |-> FALSE],
    [filename |-> "deck" \o Digit(i) \o ".pdf", file_size |-> 0, signature_ok |-> FALSE],
    [filename |-> "deck" \o Digit(i) \o ".pdf", file_size |-> MAX_FILE_SIZE + 1,
     signature_ok |-> TRUE],
    [filename |-> "notes" \o Digit(i) \o ".txt", file_size |-> 1024, signature_ok |-> FALSE],
    [filename |-> "setup" \o Digit(i) \o ".exe", file_size |-> 1024, signature_ok |-> FALSE],
    [filename |-> "", file_size |-> 0, signature_ok |-> FALSE] }

\* one output object of the asynchronous job
Shard(text, pages) == [parses |-> TRUE, text |-> text, pages |-> pages]
Unparsable == [parses |-> FALSE, text |-> "", pages |-> 0]

Shard1Text == "Pitch Deck for investors. Our startup opens a funding round."
Shard2Text == "Revenue and team.\nProduct traction. " \o Filler30
Shard3Text == "Market size and competition."

\* what a completed job leaves under its output prefix: object name (after
\* the prefix) -> content
JobOutputs ==
  { <<>>,
    ("/0/operation.log" :> Unparsable),
    ("/0/output-0001.json" :> Shard(PitchDeckText, 40)),
    ("/0/output-0001.json" :> Shard(Shard1Text, 20))
      @@ ("/0/output-0002.json" :> Shard(Shard2Text, 20)),
    ("/0/output-0001.json" :> Shard(Shard1Text, 15))
      @@ ("/0/output-0002.json" :> Unparsable)
      @@ ("/0/operation.log" :> Unparsable) }

\* a document long enough for the job to write three shards, and what a
\* completed job leaves for it
LongPdf == "report.pdf"

LongJobOutputs ==
  JobOutputs \cup
  { ("/0/output-0001.json" :> Shard(Shard1Text, 15))
      @@ ("/0/output-0002.json" :> Shard(Shard2Text, 15))
      @@ ("/0/output-0003.json" :> Shard(Shard3Text, 10)),
    ("/0/output-0001.json" :> Shard(Shard3Text, 10))
      @@ ("/0/output-0002.json" :> Shard("", 1))
      @@ ("/0/operation.log" :> Unparsable) }

JobOutputsOf(pdf) == IF pdf = LongPdf THEN LongJobOutputs ELSE JobOutputs

\* the loop over the parsed shards: all_text += "\n" + document.text when the
\* shard has text, and the pages are added up
RECURSIVE MergeText(_, _)
MergeText(documents, k) ==
  IF k > Len(documents) THEN ""
  ELSE (IF documents[k].text # "" THEN "\n" \o documents[k].text ELSE "")
       \o MergeText(documents, k + 1)

RECURSIVE MergePages(_, _)
MergePages(documents, k) ==
  IF k > Len(documents) THEN 0
  ELSE documents[k].pages + MergePages(documents, k + 1)

\* the merged text of a complete job output read in ascending name order
MergedOutput(outputs) ==
  LET order == Sorted({n \in DOMAIN outputs : EndsWith(n, ".json")})
  IN  MergeText([k \in DOMAIN order |-> outputs[order[k]]], 1)

\* the pieces the texts given to validate_extraction on its own are made of
Fragments ==
  << "The patient left the clinic and the hospital. ",
     "Passport, voter id and id proof attached. ",
     "Resume and CV: work experience. Education: MBA. ",
     "Recipe: bake, fry, boil and simmer. ",
     "Our startup founder seeks funding. ",
     "Revenue, team and product. ",
     "A product feature list. ",
     "Passport and voter id. ",
     "Budget\f and\tforecast\n\n  plan. ",
     "Notes for the weekly sync on Monday. " >>

\* the fragments of the set chosen, from number k on, in the order of Fragments
RECURSIVE JoinFragments(_, _)
JoinFragments(chosen, k) ==
  IF k > Len(Fragments) THEN ""
  ELSE (IF k \in chosen THEN Fragments[k] ELSE "") \o JoinFragments(chosen, k + 1)

\* the text of a filled form: forty words on nine short lines
StructuredText ==
  "Revenue: 10 k\nTeam: 5 of us\nProduct: one app\n"
    \o "we do it so on\nby go no if up\nwe do it so on\nby go no if up\n"
    \o "we do it so on\nby go no if up\n"

ValidatorTexts ==
  {JoinFragments(chosen, 1) \o filler :
     chosen \in {c \in SUBSET (1..Len(Fragments)) : Cardinality(c) <= MaxFragments},
     filler \in {"", Filler30}}
    \cup {StructuredText, ResumeText}

\* the texts of the documents given to validate_file_set on its own
FileSetTexts ==
  {PitchDeckText, FinancialModelText, BusinessPlanText, MarketResearchText,
   ResumeText, UnknownText, ResumePitchText, FinancialMarketText}

\* the texts extraction gives
ExtractedTexts ==
  {d.text : d \in OnlineDocuments} \cup {MergedOutput(o) : o \in LongJobOutputs}
    \cup ValidatorTexts \cup FileSetTexts

\* the texts whose scores and classification are computed once: the extracted
\* texts and what sanitize_extracted_text makes of them
TabulatedTexts ==
  ExtractedTexts \cup {sanitize_extracted_text(text) : text \in ExtractedTexts}

(***************************************************************************)
(* Content validator: validate_extraction                                  *)
(***************************************************************************)

MIN_EXTRACTED_TEXT == 50

\* sum(1 for kw in keywords if kw in text_lower)
KeywordMatches(keywords, text_lower) ==
  Cardinality({kw \in keywords : Contains(text_lower, kw)})

\* the loop over one indicator table: a category adds matches * weight once
\* it has min_matches keyword matches (weights and scores in tenths)
RECURSIVE ScoreCategories(_, _, _, _)
ScoreCategories(indicators, categories, min_matches, text_lower) ==
  IF categories = {} THEN 0
  ELSE LET category == CHOOSE c \in categories : TRUE
           keyword_matches == KeywordMatches(indicators[category].keywords, text_lower)
       IN  (IF keyword_matches >= min_matches
            THEN keyword_matches * indicators[category].weight
            ELSE 0)
           + ScoreCategories(indicators, categories \ {category}, min_matches, text_lower)

\* a score to which the resume vocabulary adds nothing
ResumeNotPersonal(indicators, skipped, min_matches, text_lower) ==
  ScoreCategories(indicators, DOMAIN indicators \ (skipped \cup {"resume_cv"}),
                  min_matches, text_lower)

\* a score to which every category with a match adds
EveryHitCounts(indicators, skipped, min_matches, text_lower) ==
  ScoreCategories(indicators, DOMAIN indicators \ skipped, 1, text_lower)

\* the categories in skipped are passed over
WeightedScore(indicators, skipped, min_matches, text_lower) ==
  ScoreCategories(indicators, DOMAIN indicators \ skipped, min_matches, text_lower)

\* The secondary classifier. gemini is what the service does on this call:
\* "YES" / "NO" (its answer), "NO_MODEL" (no model could be initialised),
\* "RAISES" (the generate call raised).  business_score in tenths.
gemini_document_type_check(text, business_score, gemini) ==
  CASE gemini = "NO_MODEL" -> business_score >= 40
    [] gemini = "RAISES"   -> business_score >= 40
    [] gemini = "YES"      -> TRUE
    [] OTHER               -> FALSE

GeminiOutcomes == {"YES", "NO", "NO_MODEL", "RAISES"}

\* a Layer 6 that takes no notice of the answer
NegativeIgnored(full_text, business_score, gemini) == FALSE

\* Layer 6 of validate_extraction: TRUE when the file is rejected there
Layer6Rejects(full_text, business_score, gemini) ==
  business_score < 30 /\ ~gemini_document_type_check(full_text, business_score, gemini)

\* the layers with the non-business check of Layer 2 moved in front of the
\* personal check of Layer 1
Layer2First(s, gemini) ==
  IF s.non_business_score > 100
  THEN [error_code |-> "NOT_BUSINESS_CONTENT", layers |-> <<0, 2>>, gemini_called |-> FALSE]
  ELSE IF s.personal_score > 80
  THEN [error_code |-> "PERSONAL_DOCUMENT", layers |-> <<0, 2, 1>>, gemini_called |-> FALSE]
  ELSE IF s.business_score < 20
  THEN [error_code |-> "INSUFFICIENT_BUSINESS_CONTENT", layers |-> <<0, 2, 1, 3>>,
        gemini_called |-> FALSE]
  ELSE [error_code |-> "VALID", layers |-> <<0, 2, 1, 3, 4, 5>>, gemini_called |-> FALSE]

\* layers without the ratio check of Layer 4
NoMixedCheck(s, gemini) ==
  IF s.personal_score > 80
  THEN [error_code |-> "PERSONAL_DOCUMENT", layers |-> <<0, 1>>, gemini_called |-> FALSE]
  ELSE IF s.non_business_score > 100
  THEN [error_code |-> "NOT_BUSINESS_CONTENT", layers |-> <<0, 1, 2>>, gemini_called |-> FALSE]
  ELSE IF s.business_score < 20
  THEN [error_code |-> "INSUFFICIENT_BUSINESS_CONTENT", layers |-> <<0, 1, 2, 3>>,
        gemini_called |-> FALSE]
  ELSE [error_code |-> "VALID", layers |-> <<0, 1, 2, 3, 4, 5>>, gemini_called |-> FALSE]

\* layers whose Layer 3 asks for a business score of 4
StrictBusiness(s, gemini) ==
  IF s.business_score < 40
  THEN [error_code |-> "INSUFFICIENT_BUSINESS_CONTENT", layers |-> <<0, 1, 2, 3>>,
        gemini_called |-> FALSE]
  ELSE [error_code |-> "VALID", layers |-> <<0, 1, 2, 3, 4, 5>>, gemini_called |-> FALSE]

\* The verdict of the layers 1 to 6 on the scores s of the text, in the order
\* of the code.  layers is the list of the layers whose code ran.
LayerVerdict(s, gemini) ==
  IF s.personal_score > 80
  THEN [error_code |-> "PERSONAL_DOCUMENT", layers |-> <<0, 1>>, gemini_called |-> FALSE]
  ELSE IF s.non_business_score > 100
  THEN [error_code |-> "NOT_BUSINESS_CONTENT", layers |-> <<0, 1, 2>>, gemini_called |-> FALSE]
  ELSE IF s.business_score < 20
  THEN [error_code |-> "INSUFFICIENT_BUSINESS_CONTENT", layers |-> <<0, 1, 2, 3>>,
        gemini_called |-> FALSE]
  ELSE IF s.business_score > 0 /\ s.personal_score * 10 > 15 * s.business_score
                               /\ s.personal_score > 50
  THEN [error_code |-> "MIXED_PERSONAL_BUSINESS", layers |-> <<0, 1, 2, 3, 4>>,
        gemini_called |-> FALSE]
  ELSE IF s.word_count < 30
  THEN [error_code |-> "INSUFFICIENT_CONTENT", layers |-> <<0, 1, 2, 3, 4, 5>>,
        gemini_called |-> FALSE]
  ELSE IF s.very_short_lines * 100 > 85 * (IF s.n_lines > 1 THEN s.n_lines ELSE 1)
  THEN [error_code |-> "LIKELY_STRUCTURED_DOCUMENT", layers |-> <<0, 1, 2, 3, 4, 5>>,
        gemini_called |-> FALSE]
  ELSE IF s.business_score < 30
  THEN [error_code |-> IF Layer6Rejects(s.full_text, s.business_score, gemini)
                       THEN "GEMINI_VALIDATION_FAILED" ELSE "VALID",
        layers |-> <<0, 1, 2, 3, 4, 5, 6>>, gemini_called |-> TRUE]
  ELSE [error_code |-> "VALID", layers |-> <<0, 1, 2, 3, 4, 5>>, gemini_called |-> FALSE]

\* a Layer 0 that never sets the flag
NeverSkip(text_lower) == FALSE

\* Layer 0: skip_personal_medical, set when the text has three business
\* context keywords
skip_personal_medical(text_lower) ==
  KeywordMatches(business_context_keywords, text_lower) >= 3

\* the resume heuristic after Layer 1
resume_score(text_lower) ==
    (IF Contains(text_lower, "objective:") THEN 2 ELSE 0)
  + (IF Contains(text_lower, "work experience") THEN 2 ELSE 0)
  + (IF Contains(text_lower, "skills") THEN 1 ELSE 0)
  + (IF Contains(text_lower, "education") THEN 1 ELSE 0)

\* very_short_lines of Layer 5
very_short_lines(lineLengths) ==
  Cardinality({k \in DOMAIN lineLengths : lineLengths[k] < 20 /\ lineLengths[k] > 0})

\* the counts and scores of the layers 0 to 5 for the sanitized text and its
\* lower-case form
LayerScores(full_text, text_lower) ==
  [full_text |-> full_text,
   skip_personal_medical |-> skip_personal_medical(text_lower),
   personal_score |->
     WeightedScore(personal_indicators,
                   IF skip_personal_medical(text_lower) THEN {"personal_medical"} ELSE {},
                   3, text_lower),
   resume_score |-> resume_score(text_lower),
   non_business_score |-> WeightedScore(non_business_indicators, {}, 3, text_lower),
   business_score |-> WeightedScore(business_indicators, {}, 1, text_lower),
   word_count |-> WordCount(full_text),
   very_short_lines |-> very_short_lines(StrippedLineLengths(full_text)),
   n_lines |-> Len(StrippedLineLengths(full_text))]

SanitizedScores(full_text) == LayerScores(full_text, lower(full_text))

\* What validate_extraction computes from the text alone: the sanitized text
\* and the counts and scores of its layers
Scores(text) == SanitizedScores(sanitize_extracted_text(text))

\* Scores of the texts of TabulatedTexts, computed once
ScoreTable == [text \in TabulatedTexts |-> Scores(text)]

ScoresOf(text) == IF text \in TabulatedTexts THEN ScoreTable[text] ELSE Scores(text)

NoScores ==
  [personal_score |-> 0, non_business_score |-> 0, business_score |-> 0,
   resume_score |-> 0, word_count |-> 0, very_short_lines |-> 0, n_lines |-> 0]

Reached(layers, layer) == \E k \in DOMAIN layers : layers[k] = layer

\* what validate_extraction returns once the layers have decided: v is the
\* verdict of the layers, s the scores, written the extraction result with
\* the sanitized text
Decided(written, s, v) ==
  [is_valid |-> v.error_code = "VALID",
   error_code |-> v.error_code,
   layers |-> v.layers,
   gemini_called |-> v.gemini_called,
   scores |-> [personal_score |-> s.personal_score,
               non_business_score |->
                 IF Reached(v.layers, 2) THEN s.non_business_score ELSE 0,
               business_score |-> IF Reached(v.layers, 3) THEN s.business_score ELSE 0,
               resume_score |-> IF Reached(v.layers, 2) THEN s.resume_score ELSE 0,
               word_count |-> IF Reached(v.layers, 5) THEN s.word_count ELSE 0,
               very_short_lines |->
                 IF Reached(v.layers, 5) THEN s.very_short_lines ELSE 0,
               n_lines |-> IF Reached(v.layers, 5) THEN s.n_lines ELSE 0],
   extracted_data |->
     [written EXCEPT
        !.validation_error_code =
            IF v.error_code = "PERSONAL_DOCUMENT" THEN "PERSONAL_DOCUMENT" ELSE @,
        !.document_classification =
            IF Reached(v.layers, 2) /\ s.resume_score >= 4 THEN "RESUME" ELSE @]]

Precondition(written, error_code) ==
  [is_valid |-> FALSE, error_code |-> error_code, layers |-> <<>>,
   gemini_called |-> FALSE, scores |-> NoScores, extracted_data |-> written]

\* a validator that tests the page count before the text
PagesFirst(written, s, gemini) ==
  IF written.page_count = 0
  THEN Precondition(written, "NO_PAGES_DETECTED")
  ELSE IF written.full_text = "" \/ Len(written.full_text) < MIN_EXTRACTED_TEXT
  THEN Precondition(written, "NO_TEXT_EXTRACTED")
  ELSE Decided(written, s, LayerVerdict(s, gemini))

\* a validator without the page-count precondition
NoPageCheck(written, s, gemini) ==
  IF written.full_text = "" \/ Len(written.full_text) < MIN_EXTRACTED_TEXT
  THEN Precondition(written, "NO_TEXT_EXTRACTED")
  ELSE Decided(written, s, LayerVerdict(s, gemini))

\* validate_extraction after the text was sanitized and written back: the
\* two preconditions, then the layers
Validated(written, s, gemini) ==
  IF written.full_text = "" \/ Len(written.full_text) < MIN_EXTRACTED_TEXT
  THEN Precondition(written, "NO_TEXT_EXTRACTED")
  ELSE IF written.page_count = 0
  THEN Precondition(written, "NO_PAGES_DETECTED")
  ELSE Decided(written, s, LayerVerdict(s, gemini))

WriteBack(extracted_data, s) == [extracted_data EXCEPT !.full_text = s.full_text]

Sanitize(extracted_data, s, gemini) == Validated(WriteBack(extracted_data, s), s, gemini)

\* validate_extraction(extracted_data): the verdict, the layers that ran, their
\* scores, and extracted_data as the call leaves it
validate_extraction(extracted_data, gemini) ==
  Sanitize(extracted_data, ScoresOf(extracted_data.full_text), gemini)

(***************************************************************************)
(* Document role classifier and file-set validator                         *)
(***************************************************************************)

\* a classifier that tests the pitch deck rule before the resume rule
PitchBeforeResume(text_lower) ==
  IF KeywordMatches(pitch_keywords, text_lower) >= 2
  THEN [type |-> "PITCH_DECK", is_primary |-> TRUE]
  ELSE IF KeywordMatches(resume_keywords, text_lower) >= 2
  THEN [type |-> "RESUME", is_primary |-> FALSE]
  ELSE IF KeywordMatches(financial_keywords, text_lower) >= 3
  THEN [type |-> "FINANCIAL_MODEL", is_primary |-> TRUE]
  ELSE IF KeywordMatches(business_keywords, text_lower) >= 2
  THEN [type |-> "BUSINESS_PLAN", is_primary |-> TRUE]
  ELSE IF KeywordMatches(market_keywords, text_lower) >= 2
  THEN [type |-> "MARKET_RESEARCH", is_primary |-> TRUE]
  ELSE [type |-> "UNKNOWN", is_primary |-> FALSE]

\* The rules of classify_document_type on the lower-case text: the first rule
\* whose keyword count reaches its threshold decides
ClassifyLower(text_lower) ==
  IF KeywordMatches(resume_keywords, text_lower) >= 2
  THEN [type |-> "RESUME", is_primary |-> FALSE]
  ELSE IF KeywordMatches(pitch_keywords, text_lower) >= 2
  THEN [type |-> "PITCH_DECK", is_primary |-> TRUE]
  ELSE IF KeywordMatches(financial_keywords, text_lower) >= 3
  THEN [type |-> "FINANCIAL_MODEL", is_primary |-> TRUE]
  ELSE IF KeywordMatches(business_keywords, text_lower) >= 2
  THEN [type |-> "BUSINESS_PLAN", is_primary |-> TRUE]
  ELSE IF KeywordMatches(market_keywords, text_lower) >= 2
  THEN [type |-> "MARKET_RESEARCH", is_primary |-> TRUE]
  ELSE [type |-> "UNKNOWN", is_primary |-> FALSE]

Classify(extracted_text) == ClassifyLower(lower(extracted_text))

\* Classify of the sanitized texts of TabulatedTexts, computed once
ClassifyTable ==
  [text \in {ScoreTable[t].full_text : t \in TabulatedTexts} |-> Classify(text)]

\* classify_document_type(extracted_text, filename)
classify_document_type(extracted_text, filename) ==
  IF extracted_text \in DOMAIN ClassifyTable
  THEN ClassifyTable[extracted_text] ELSE Classify(extracted_text)

\* a verdict that looks at the supplementary flag alone
SupplementaryFirst(has_primary_document, has_supplementary_document) ==
  IF has_supplementary_document
  THEN [is_valid |-> FALSE, code |-> "SUPPLEMENTARY_ONLY"]
  ELSE [is_valid |-> TRUE, code |-> "VALID"]

\* a verdict that never says SUPPLEMENTARY_ONLY
NoSupplementaryCase(has_primary_document, has_supplementary_document) ==
  IF has_primary_document
  THEN [is_valid |-> TRUE, code |-> "VALID"]
  ELSE [is_valid |-> FALSE, code |-> "UNKNOWN_DOCUMENTS"]

\* the verdict of validate_file_set from the two flags its loop leaves
FileSetVerdict(has_primary_document, has_supplementary_document) ==
  IF has_supplementary_document /\ ~has_primary_document
  THEN [is_valid |-> FALSE, code |-> "SUPPLEMENTARY_ONLY"]
  ELSE IF has_primary_document
  THEN [is_valid |-> TRUE, code |-> "VALID"]
  ELSE [is_valid |-> FALSE, code |-> "UNKNOWN_DOCUMENTS"]

\* validate_file_set after its loop over the documents: every document that
\* is not primary sets has_supplementary_document
FileSetDecision(document_types) ==
  [is_valid |->
     FileSetVerdict(\E i \in DOMAIN document_types : document_types[i].is_primary,
                    \E i \in DOMAIN document_types : ~document_types[i].is_primary).is_valid,
   code |->
     FileSetVerdict(\E i \in DOMAIN document_types : document_types[i].is_primary,
                    \E i \in DOMAIN document_types : ~document_types[i].is_primary).code,
   document_types |-> document_types]

\* validate_file_set(all_extracted_data, file_names)
validate_file_set(all_extracted_data, file_names) ==
  IF Len(all_extracted_data) = 0
  THEN [is_valid |-> FALSE, code |-> "NO_FILES", document_types |-> <<>>]
  ELSE FileSetDecision(
         [i \in 1..Len(all_extracted_data) |->
            classify_document_type(all_extracted_data[i].full_text,
                                   IF i <= Len(file_names) THEN file_names[i] ELSE "file")])
(***************************************************************************)
(* State                                                                   *)
(***************************************************************************)

VARIABLES
  USE_OCR,             \* configuration flag, fixed for the process
  n_files,             \* len(files) of the request
  file_idx,            \* position of the file loop of analyze_document
  pc,                  \* where analyze_document stands
  file,                \* the file whose extraction is in the batch path
  extract,             \* the current call of extract_with_document_ai
  validation_errors,   \* analyze_document: per-file failures
  all_extracted_data,  \* analyze_document: extraction results that passed
  file_names,          \* analyze_document: their file names
  set_decision,        \* result of validate_file_set
  response,            \* what analyze_document returns
  now,                 \* the wall clock, in microseconds
  input_bucket,        \* Object Stage, input bucket: name -> content
  output_bucket,       \* Object Stage, output bucket: name -> content
  batch,               \* batch_process_document, one activation per worker
  validation,          \* validate_extraction called on its own
  request_tracker,     \* rate_limit: client IP -> times of the requests let through
  wall_clock,          \* rate_limit: datetime.now(), in seconds
  traffic              \* the requests that arrived: the times of those let
                       \* through, by client IP, their number, and the last outcome

rateVars == <<request_tracker, wall_clock, traffic>>

vars ==
  <<rateVars, USE_OCR, n_files, file_idx, pc, file, extract, validation_errors,
    all_extracted_data, file_names, set_decision, response, now,
    input_bucket, output_bucket, batch, validation>>

requestVars ==
  <<n_files, file_idx, pc, file, extract, validation_errors,
    all_extracted_data, file_names, set_decision, response>>

\* the worker of the request, and the workers of concurrent batch attempts
RequestWorker == 1
Workers == {1, 2}

\* the requests that arrive at the rate limiter: with a remote address, or
\* without the attribute
Requests ==
  { [has_remote_addr |-> TRUE, remote_addr |-> "203.0.113.7"],
    [has_remote_addr |-> FALSE, remote_addr |-> ""] }

\* the key of the tracker for a request
client_ip(request) == IF request.has_remote_addr THEN request.remote_addr ELSE "unknown"

\* the tracker of a process that has served no request
NoTraffic ==
  /\ request_tracker = <<>>
  /\ wall_clock = 0
  /\ traffic = [admitted |-> <<>>, requests |-> 0,
                last |-> [ip |-> "", http |-> 0, code |-> ""]]

\* the tracker after the wrapper has let the first request of the process
\* through to analyze_document
RequestAdmitted(request) ==
  /\ request_tracker = (client_ip(request) :> <<0>>)
  /\ wall_clock = 0
  /\ traffic = [admitted |-> (client_ip(request) :> <<0>>), requests |-> 1,
                last |-> [ip |-> client_ip(request), http |-> 0, code |-> ""]]

NoFile == [filename |-> "", file_size |-> 0, signature_ok |-> FALSE]

\* the OCR settings of the online request: the fields the code sets, the same
\* for either value of USE_OCR
ocr_config == [enable_native_pdf_parsing |-> TRUE, enable_image_quality_scores |-> FALSE]

\* extract_with_document_ai: where the call stands, the calls it has made, the
\* OCR settings of the request it sent, and the exception it is handling or
\* has raised
NoExtract ==
  [state |-> "Start", online_calls |-> 0, batch_calls |-> 0, error |-> "", ocr_config |-> <<>>]

NoDecision == [is_valid |-> FALSE, code |-> "", document_types |-> <<>>]

NoResponse == [status |-> "", http |-> 0, code |-> "", details |-> <<>>, documentsAnalyzed |-> <<>>]

IdleBatch ==
  [pc |-> "idle", pdf |-> "", timestamp |-> "", input_blob_name |-> "",
   gcs_output_uri_prefix |-> "", output_blobs |-> <<>>, deleted |-> 0,
   cleanup_failed |-> FALSE, full_text |-> "", page_count |-> 0,
   processing_method |-> "", error |-> ""]

NoValidation == [extracted_data |-> [full_text |-> "", page_count |-> 0,
                                     processing_method |-> "",
                                     validation_error_code |-> "",
                                     document_classification |-> ""],
                 verdicts |-> <<>>]

\* map helpers for the buckets
Put(bucket, name, content) == (name :> content) @@ bucket

Remove(bucket, name) == [n \in DOMAIN bucket \ {name} |-> bucket[n]]

(***************************************************************************)
(* analyze_document: the checks of one uploaded file before extraction     *)
(***************************************************************************)

\* filename.rsplit('.', 1)[-1].lower() if '.' in filename else ''
Extension(filename) ==
  LET dots == {i \in 1..Len(filename) : CharAt(filename, i) = "."}
  IN  IF dots = {} THEN ""
      ELSE LET last == CHOOSE i \in dots : \A j \in dots : j <= i
           IN  lower(SubSeq(filename, last + 1, Len(filename)))

\* verify_file_magic_bytes
verify_file_magic_bytes(f) ==
  IF Extension(f.filename) \notin magic_bytes_map THEN "UNSUPPORTED_FORMAT"
  ELSE IF f.signature_ok THEN "VALID"
  ELSE "INVALID_FILE_SIGNATURE"

\* the code analyze_document records for a file it does not extract, or "VALID"
upload_check(f) ==
  IF f.file_size > MAX_FILE_SIZE THEN "FILE_TOO_LARGE"
  ELSE IF f.file_size = 0 THEN "EMPTY_FILE"
  ELSE IF Extension(f.filename) = "" \/ Extension(f.filename) \notin ALLOWED_EXTENSIONS
  THEN "INVALID_FILE_TYPE"
  ELSE verify_file_magic_bytes(f)

\* the message recorded with the code of upload_check
upload_message(f) ==
  LET code == upload_check(f)
  IN  CASE code = "FILE_TOO_LARGE" -> "File is 50.0MB. Maximum 50MB allowed"
        [] code = "EMPTY_FILE" -> "File is empty"
        [] code = "INVALID_FILE_TYPE" ->
             "File type '." \o Extension(f.filename)
               \o "' not supported. Allowed: pdf, txt, docx, pptx, doc, ppt"
        [] code = "UNSUPPORTED_FORMAT" ->
             "File type ." \o Extension(f.filename) \o " not supported"
        [] code = "INVALID_FILE_SIGNATURE" ->
             "File signature doesn't match ." \o Extension(f.filename) \o " format"
        [] OTHER -> "File signature verified"

\* the third element of the tuples validate_extraction returns
error_msg(error_code) ==
  CASE error_code = "NO_TEXT_EXTRACTED" ->
         "Unable to extract readable text from document. The file may be corrupted, image-only, encrypted, or not a valid business document."
    [] error_code = "NO_PAGES_DETECTED" ->
         "Document appears to be empty or unreadable."
    [] error_code = "PERSONAL_DOCUMENT" ->
         "This document contains personal information and cannot be analyzed. Please upload business documents only."
    [] error_code = "NOT_BUSINESS_CONTENT" ->
         "This document does not appear to be a business document. Please upload startup pitch decks, financial models, or business-related documents."
    [] error_code = "INSUFFICIENT_BUSINESS_CONTENT" ->
         "Document does not contain enough business-related content. Please upload pitch decks, financial models, market research, or business documents."
    [] error_code = "MIXED_PERSONAL_BUSINESS" ->
         "Document contains a mix of personal and business content. Please upload pure business documents."
    [] error_code = "INSUFFICIENT_CONTENT" ->
         "Document is too short to be a valid business document. Please upload documents with more detailed content."
    [] error_code = "LIKELY_STRUCTURED_DOCUMENT" ->
         "This appears to be a structured form or ID document, not a business document. Please upload proper business documents."
    [] error_code = "GEMINI_VALIDATION_FAILED" ->
         "AI analysis suggests this may not be a business document. Please verify and try again."
    [] OTHER -> "Content validation passed - Valid business document"

\* a file the loop leaves: one more entry of validation_errors
FileFailed(f, error, message) ==
  /\ validation_errors' =
       Append(validation_errors, [filename |-> f.filename, error |-> error, message |-> message])
  /\ UNCHANGED <<all_extracted_data, file_names>>

\* the loop after validate_extraction returned r: the file is kept or recorded
Record(f, r) ==
  IF ~r.is_valid
  THEN FileFailed(f, r.error_code, error_msg(r.error_code))
  ELSE /\ file_names' = Append(file_names, f.filename)
       /\ all_extracted_data' = Append(all_extracted_data, r.extracted_data)
       /\ UNCHANGED validation_errors

\* the extraction result is validated and the file kept or recorded
ValidateAndRecord(f, extracted_data, gemini) ==
  Record(f, validate_extraction(extracted_data, gemini))

\* a loop that stops at the first file it has handled
LeaveLoop ==
  /\ file_idx' = n_files + 1
  /\ pc' = "files"
  /\ file' = NoFile

NextFile ==
  /\ file_idx' = file_idx + 1
  /\ pc' = "files"
  /\ file' = NoFile

\* a file that fails the upload checks is recorded and skipped
RejectUpload ==
  /\ pc = "files" /\ file_idx <= n_files
  /\ \E f \in Uploads(file_idx) :
       /\ f.filename # ""
       /\ upload_check(f) # "VALID"
       /\ FileFailed(f, upload_check(f), upload_message(f))
  /\ NextFile
  /\ extract' = NoExtract
  /\ UNCHANGED <<rateVars, USE_OCR, n_files, set_decision, response, now, input_bucket,
                 output_bucket, batch, validation>>

\* an entry of the request without a file name is passed over with no record
SkipEntry ==
  /\ pc = "files" /\ file_idx <= n_files
  /\ \E f \in Uploads(file_idx) : f.filename = ""
  /\ NextFile
  /\ extract' = NoExtract
  /\ UNCHANGED <<rateVars, USE_OCR, n_files, validation_errors, all_extracted_data, file_names,
                 set_decision, response, now, input_bucket, output_bucket, batch,
                 validation>>

(***************************************************************************)
(* extract_with_document_ai: the online attempt                            *)
(***************************************************************************)

\* the test of the except clause: does str(e) signal the page limit
page_limit_signal(error_str) ==
  \/ Contains(error_str, "PAGE_LIMIT_EXCEEDED")
  \/ Contains(error_str, "non-imageless")
  \/ Contains(lower(error_str), "exceed")

\* the result of a successful online call
OnlineResult(document) ==
  [full_text |-> document.text,
   page_count |-> document.pages,
   processing_method |-> IF USE_OCR THEN "online_ocr" ELSE "online_imageless",
   validation_error_code |-> "",
   document_classification |-> ""]

\* the names batch_process_document derives from one reading of the clock
BatchBegun(pdf, micro) ==
  [IdleBatch EXCEPT
     !.pc = "upload",
     !.pdf = pdf,
     !.timestamp = strftime(micro),
     !.input_blob_name = input_blob_name(strftime(micro)),
     !.gcs_output_uri_prefix = gcs_output_uri_prefix(strftime(micro))]

\* the online call succeeds: the result is validated and the file kept or
\* recorded as failed
OnlineSuccess ==
  /\ pc = "files" /\ file_idx <= n_files
  /\ \E f \in Uploads(file_idx), document \in OnlineDocuments, gemini \in GeminiOutcomes :
       /\ f.filename # "" /\ upload_check(f) = "VALID"
       /\ ValidateAndRecord(f, OnlineResult(document), gemini)
  /\ extract' = [state |-> "Success", online_calls |-> 1, batch_calls |-> 0, error |-> "",
                 ocr_config |-> ocr_config]
  /\ NextFile
  /\ UNCHANGED <<rateVars, USE_OCR, n_files, set_decision, response, now, input_bucket,
                 output_bucket, batch, validation>>

\* the online call raises an error that is no page-limit signal: the error is
\* raised again and the loop records the file as failed
OnlineFatal ==
  /\ pc = "files" /\ file_idx <= n_files
  /\ \E f \in Uploads(file_idx), error_str \in OnlineErrors :
       /\ f.filename # "" /\ upload_check(f) = "VALID"
       /\ ~page_limit_signal(error_str)
       /\ FileFailed(f, "PROCESSING_ERROR", error_str)
       /\ extract' = [state |-> "Fatal", online_calls |-> 1, batch_calls |-> 0,
                      error |-> error_str, ocr_config |-> ocr_config]
  /\ NextFile
  /\ UNCHANGED <<rateVars, USE_OCR, n_files, set_decision, response, now, input_bucket,
                 output_bucket, batch, validation>>

\* the online call raises a page-limit signal: batch_process_document is
\* entered and reads the clock
OnlineFallback ==
  /\ pc = "files" /\ file_idx <= n_files
  /\ batch[RequestWorker].pc = "idle"
  /\ \E f \in Uploads(file_idx), error_str \in OnlineErrors :
       /\ f.filename # "" /\ upload_check(f) = "VALID"
       /\ page_limit_signal(error_str)
       /\ file' = f
       /\ extract' = [state |-> "Batch", online_calls |-> 1, batch_calls |-> 1,
                      error |-> error_str, ocr_config |-> ocr_config]
       /\ batch' = [batch EXCEPT ![RequestWorker] = BatchBegun(f.filename, now)]
  /\ pc' = "batch"
  /\ UNCHANGED <<rateVars, USE_OCR, n_files, file_idx, validation_errors, all_extracted_data,
                 file_names, set_decision, response, now, input_bucket, output_bucket,
                 validation>>

(***************************************************************************)
(* batch_process_document, step by step at its calls to the Object Stage   *)
(* and to the job service                                                  *)
(***************************************************************************)

\* an exception that is swallowed: the function goes on to read the output
Swallowed(w, message) ==
  batch' = [batch EXCEPT ![w].pc = "retrieve"]

\* an exception after which the batch attempt is made once more
Retried(w, message) ==
  batch' = [batch EXCEPT ![w].pc = "upload", ![w].error = message]

\* an exception after which the cleanup runs all the same
CleanedUp(w, message) ==
  batch' = [batch EXCEPT ![w].pc = "cleanup", ![w].error = message]

\* an exception inside batch_process_document: the outer except clause prints
\* and raises it again
Raised(w, message) ==
  batch' = [batch EXCEPT ![w].pc = "raised", ![w].error = message]

\* the clock after a call to a remote service: time has passed
Later == IF now < FirstMicrosecond + MaxClockSteps THEN now + 1 ELSE now

\* input_blob.upload_from_string
BatchUpload(w) ==
  /\ batch[w].pc = "upload"
  /\ \/ /\ input_bucket' = Put(input_bucket, batch[w].input_blob_name, batch[w].pdf)
        /\ batch' = [batch EXCEPT ![w].pc = "job"]
     \/ /\ Raised(w, "403 upload forbidden")
        /\ UNCHANGED input_bucket
  /\ now' = Later
  /\ UNCHANGED <<rateVars, USE_OCR, requestVars, output_bucket, validation>>

\* the objects a job writes for the input it read
JobWrites(w, outputs) ==
  [name \in {batch[w].gcs_output_uri_prefix \o short : short \in DOMAIN outputs} |->
     LET short == CHOOSE sh \in DOMAIN outputs : batch[w].gcs_output_uri_prefix \o sh = name
     IN  [parses |-> outputs[short].parses, text |-> outputs[short].text,
          pages |-> outputs[short].pages,
          of |-> IF batch[w].input_blob_name \in DOMAIN input_bucket
                 THEN input_bucket[batch[w].input_blob_name] ELSE ""]]

\* batch_process_documents and operation.result(timeout=900): the job
\* completes and has written its output
BatchJobCompletes(w) ==
  /\ batch[w].pc = "job"
  /\ batch[w].input_blob_name \in DOMAIN input_bucket
  /\ \E outputs \in JobOutputsOf(batch[w].pdf) :
       output_bucket' = JobWrites(w, outputs) @@ output_bucket
  /\ batch' = [batch EXCEPT ![w].pc = "retrieve"]
  /\ UNCHANGED <<rateVars, USE_OCR, requestVars, now, input_bucket, validation>>

\* what a job that failed or is still running may have written
PartialOutputs == {<<>>, ("/0/output-0001.json" :> Shard(Shard1Text, 15))}

\* str(e) of the exception of operation.result(timeout=900) when the wait
\* times out
JobTimeout == "Operation did not complete within the designated timeout of 900 seconds."

\* the submission fails, the job fails, or the wait times out
BatchJobFails(w) ==
  /\ batch[w].pc = "job"
  /\ \/ /\ Raised(w, "400 invalid batch request")
        /\ UNCHANGED output_bucket
     \/ \E message \in {"batch operation failed", JobTimeout},
           outputs \in PartialOutputs :
          /\ Raised(w, message)
          /\ output_bucket' = JobWrites(w, outputs) @@ output_bucket
  /\ UNCHANGED <<rateVars, USE_OCR, requestVars, now, input_bucket, validation>>

\* a loop that reads the shards in the order the listing gave them
DiscoveryOrder(json_blobs) == json_blobs

\* sorted(json_blobs, key=lambda b: b.name): the listed JSON objects in the
\* order in which the shards are read; the sort is stable
ReadOrder(json_blobs) ==
  [k \in 1..Len(json_blobs) |->
     json_blobs[CHOOSE i \in 1..Len(json_blobs) :
                  Cardinality({j \in 1..Len(json_blobs) :
                                 \/ StrLess(json_blobs[j], json_blobs[i])
                                 \/ json_blobs[j] = json_blobs[i] /\ j < i}) = k - 1]]

\* [b for b in output_blobs if b.name.endswith(".json")]
RECURSIVE JsonBlobs(_, _)
JsonBlobs(output_blobs, k) ==
  IF k > Len(output_blobs) THEN <<>>
  ELSE (IF EndsWith(output_blobs[k], ".json") THEN <<output_blobs[k]>> ELSE <<>>)
       \o JsonBlobs(output_blobs, k + 1)

\* the activation after the shards were read in the order given
Retrieved(b, output_blobs, order) ==
  [b EXCEPT
     !.pc = "cleanup",
     !.output_blobs = output_blobs,
     !.full_text = MergeText([k \in DOMAIN order |-> output_bucket[order[k]]], 1),
     !.page_count = MergePages([k \in DOMAIN order |-> output_bucket[order[k]]], 1),
     !.processing_method = "batch_ocr"]

\* list_blobs(prefix), in whatever order the listing gives the objects, then
\* the merge of the JSON objects in the order of their names
BatchRetrieve(w) ==
  /\ batch[w].pc = "retrieve"
  /\ LET listed == {n \in DOMAIN output_bucket : StartsWith(n, batch[w].gcs_output_uri_prefix)}
     IN  IF listed = {}
         THEN Raised(w, "No output files found in GCS.")
         ELSE IF \A n \in listed : ~EndsWith(n, ".json")
         THEN Raised(w, "Could not find any JSON output files from batch processing.")
         ELSE IF \E n \in listed : EndsWith(n, ".json") /\ ~output_bucket[n].parses
         THEN Raised(w, "Failed to parse Document from JSON")
         ELSE \E output_blobs \in [1..Cardinality(listed) -> listed] :
                /\ \A n \in listed : \E k \in DOMAIN output_blobs : output_blobs[k] = n
                /\ batch' = [batch EXCEPT
                               ![w] = Retrieved(batch[w], output_blobs,
                                                ReadOrder(JsonBlobs(output_blobs, 1)))]
  /\ UNCHANGED <<rateVars, USE_OCR, requestVars, now, input_bucket, output_bucket, validation>>

\* the objects the cleanup deletes, in its order: the input object, then the
\* listed output objects
CleanupTargets(b) == <<b.input_blob_name>> \o b.output_blobs

\* a cleanup whose failure reaches the caller
CleanupFailureRaised(b) ==
  [b EXCEPT !.pc = "raised", !.cleanup_failed = TRUE, !.error = "503 delete failed",
            !.full_text = "", !.page_count = 0]

\* a cleanup that passes over a delete that raised and goes on with the next
ContinueAfterFailure(b) ==
  [b EXCEPT !.deleted = b.deleted + 1, !.cleanup_failed = TRUE,
            !.pc = IF b.deleted + 1 = Len(CleanupTargets(b)) THEN "returned" ELSE "cleanup"]

\* the activation after a delete of the cleanup raised: the except clause
\* logs, and the result is returned
AfterCleanupFailure(b) == [b EXCEPT !.pc = "returned", !.cleanup_failed = TRUE]

\* a cleanup that deletes the input object only
InputDeletedOnly(b, k) == [b EXCEPT !.deleted = k, !.pc = "returned"]

\* the activation after target number k of the cleanup was deleted
AfterDelete(b, k) ==
  [b EXCEPT !.deleted = k,
            !.pc = IF k = Len(CleanupTargets(b)) THEN "returned" ELSE "cleanup"]

\* one delete of the cleanup succeeds
BatchDelete(w) ==
  /\ batch[w].pc = "cleanup"
  /\ LET k == batch[w].deleted + 1
         name == CleanupTargets(batch[w])[k]
     IN  /\ IF k = 1
            THEN /\ name \in DOMAIN input_bucket
                 /\ input_bucket' = Remove(input_bucket, name)
                 /\ UNCHANGED output_bucket
            ELSE /\ name \in DOMAIN output_bucket
                 /\ output_bucket' = Remove(output_bucket, name)
                 /\ UNCHANGED input_bucket
         /\ batch' = [batch EXCEPT ![w] = AfterDelete(batch[w], k)]
  /\ UNCHANGED <<rateVars, USE_OCR, requestVars, now, validation>>

\* one delete of the cleanup raises (the service fails, or the object is gone)
BatchDeleteFails(w) ==
  /\ batch[w].pc = "cleanup"
  /\ batch' = [batch EXCEPT ![w] = AfterCleanupFailure(batch[w])]
  /\ UNCHANGED <<rateVars, USE_OCR, requestVars, now, input_bucket, output_bucket, validation>>

\* the dict batch_process_document returns
BatchResult(b) ==
  [full_text |-> b.full_text,
   page_count |-> b.page_count,
   processing_method |-> b.processing_method,
   validation_error_code |-> "",
   document_classification |-> ""]

(***************************************************************************)
(* extract_with_document_ai and analyze_document after the batch path      *)
(***************************************************************************)

\* batch_process_document returned: its result is the result of the extraction
BatchFallbackSuccess ==
  /\ pc = "batch" /\ batch[RequestWorker].pc = "returned"
  /\ \E gemini \in GeminiOutcomes :
       ValidateAndRecord(file, BatchResult(batch[RequestWorker]), gemini)
  /\ extract' = [extract EXCEPT !.state = "Success", !.error = ""]
  /\ batch' = [batch EXCEPT ![RequestWorker] = IdleBatch]
  /\ NextFile
  /\ UNCHANGED <<rateVars, USE_OCR, n_files, set_decision, response, now, input_bucket,
                 output_bucket, validation>>

\* batch_process_document raised: the error is raised again and the loop
\* records the file as failed
BatchFallbackFatal ==
  /\ pc = "batch" /\ batch[RequestWorker].pc = "raised"
  /\ FileFailed(file, "PROCESSING_ERROR", batch[RequestWorker].error)
  /\ extract' = [extract EXCEPT !.state = "Fatal", !.error = batch[RequestWorker].error]
  /\ batch' = [batch EXCEPT ![RequestWorker] = IdleBatch]
  /\ NextFile
  /\ UNCHANGED <<rateVars, USE_OCR, n_files, set_decision, response, now, input_bucket,
                 output_bucket, validation>>

(***************************************************************************)
(* analyze_document after the file loop                                    *)
(***************************************************************************)

\* a request that fails whenever one of its files failed
FailOnAnyError(d) ==
  /\ set_decision' = d
  /\ IF d.is_valid /\ validation_errors = <<>>
     THEN pc' = "analysis" /\ UNCHANGED response
     ELSE /\ pc' = "done"
          /\ response' = [NoResponse EXCEPT !.status = "error", !.http = 400,
                                            !.code = d.code]

\* analyze_document after validate_file_set returned d
FileSetChecked(d) ==
  /\ set_decision' = d
  /\ IF d.is_valid
     THEN pc' = "analysis" /\ UNCHANGED response
     ELSE /\ pc' = "done"
          /\ response' = [NoResponse EXCEPT !.status = "error", !.http = 400,
                                            !.code = d.code]

\* no file survived, or the file set is validated
FinishFiles ==
  /\ pc = "files" /\ file_idx > n_files
  /\ IF all_extracted_data = <<>>
     THEN /\ response' = [NoResponse EXCEPT !.status = "error", !.http = 400,
                                            !.code = "NO_VALID_FILES",
                                            !.details = validation_errors]
          /\ pc' = "done"
          /\ UNCHANGED set_decision
     ELSE FileSetChecked(validate_file_set(all_extracted_data, file_names))
  /\ UNCHANGED <<rateVars, USE_OCR, n_files, file_idx, file, extract, validation_errors,
                 all_extracted_data, file_names, now, input_bucket, output_bucket,
                 batch, validation>>

\* the downstream analysis of the surviving files and the final response
Downstream ==
  /\ pc = "analysis"
  /\ \/ response' = [NoResponse EXCEPT !.status = "success", !.http = 200,
                                       !.documentsAnalyzed = file_names]
     \/ response' = [NoResponse EXCEPT !.status = "error", !.http = 500,
                                       !.code = "GEMINI_ANALYSIS_FAILED"]
     \/ response' = [NoResponse EXCEPT !.status = "error", !.http = 500,
                                       !.code = "INTERNAL_ERROR"]
  /\ pc' = "done"
  /\ UNCHANGED <<rateVars, USE_OCR, n_files, file_idx, file, extract, validation_errors,
                 all_extracted_data, file_names, set_decision, now, input_bucket,
                 output_bucket, batch, validation>>

(***************************************************************************)
(* One request: analyze_document with its extractions                      *)
(***************************************************************************)

Init ==
  /\ USE_OCR \in BOOLEAN
  /\ RequestAdmitted(CHOOSE request \in Requests : request.has_remote_addr)
  /\ n_files \in 1..MaxFiles
  /\ file_idx = 1
  /\ pc = "files"
  /\ file = NoFile
  /\ extract = NoExtract
  /\ validation_errors = <<>>
  /\ all_extracted_data = <<>>
  /\ file_names = <<>>
  /\ set_decision = NoDecision
  /\ response = NoResponse
  /\ now = FirstMicrosecond
  /\ input_bucket = <<>>
  /\ output_bucket = <<>>
  /\ batch = [w \in Workers |-> IdleBatch]
  /\ validation = NoValidation

Next ==
  \/ SkipEntry
  \/ RejectUpload
  \/ OnlineSuccess
  \/ OnlineFatal
  \/ OnlineFallback
  \/ BatchUpload(RequestWorker)
  \/ BatchJobCompletes(RequestWorker)
  \/ BatchJobFails(RequestWorker)
  \/ BatchRetrieve(RequestWorker)
  \/ BatchDelete(RequestWorker)
  \/ BatchDeleteFails(RequestWorker)
  \/ BatchFallbackSuccess
  \/ BatchFallbackFatal
  \/ FinishFiles
  \/ Downstream

Spec == Init /\ [][Next]_vars

\* a step of a call of extract_with_document_ai that has entered
\* batch_process_document: the function is straight-line code whose remote
\* calls return or raise and whose wait gives up after 900 seconds, so a step
\* that can be taken is taken
ExtractStep ==
  \/ BatchUpload(RequestWorker)
  \/ BatchJobCompletes(RequestWorker)
  \/ BatchJobFails(RequestWorker)
  \/ BatchRetrieve(RequestWorker)
  \/ BatchDelete(RequestWorker)
  \/ BatchDeleteFails(RequestWorker)
  \/ BatchFallbackSuccess
  \/ BatchFallbackFatal

\* a request with one file: one call of extract_with_document_ai at most
InitLive == Init /\ n_files = 1

SpecLive == InitLive /\ [][Next]_vars /\ WF_vars(ExtractStep)

(***************************************************************************)
(* validate_extraction on its own: one extraction result, validated up to  *)
(* MaxValidations times                                                    *)
(***************************************************************************)

\* no request is running
NoRequest ==
  /\ n_files = 1
  /\ file_idx = 1
  /\ file = NoFile
  /\ extract = NoExtract
  /\ validation_errors = <<>>
  /\ all_extracted_data = <<>>
  /\ file_names = <<>>
  /\ set_decision = NoDecision
  /\ response = NoResponse

\* the Object Stage is empty and no batch attempt runs
NoBatch ==
  /\ now = FirstMicrosecond
  /\ input_bucket = <<>>
  /\ output_bucket = <<>>
  /\ batch = [w \in Workers |-> IdleBatch]

\* the extraction results given to the validator: a text and a page count
ValidatorInputs ==
  {[full_text |-> text, page_count |-> page_count, processing_method |-> "online_ocr",
    validation_error_code |-> "", document_classification |-> ""] :
     text \in ValidatorTexts, page_count \in {0, 3}}

InitValidate ==
  /\ USE_OCR = TRUE
  /\ NoTraffic
  /\ pc = "validate"
  /\ NoRequest
  /\ NoBatch
  /\ \E extracted_data \in ValidatorInputs :
       validation = [extracted_data |-> extracted_data, verdicts |-> <<>>]

\* what a call of validate_extraction returns, with what the model records
\* of its run
Verdict(r, gemini) ==
  [is_valid |-> r.is_valid, error_code |-> r.error_code, message |-> error_msg(r.error_code),
   layers |-> r.layers, gemini_called |-> r.gemini_called, gemini |-> gemini,
   scores |-> r.scores]

Validation(r, gemini) ==
  [extracted_data |-> r.extracted_data,
   verdicts |-> Append(validation.verdicts, Verdict(r, gemini))]

\* one call of validate_extraction on the extraction result as the calls
\* before left it
Validate ==
  /\ pc = "validate"
  /\ Len(validation.verdicts) < MaxValidations
  /\ \E gemini \in GeminiOutcomes :
       validation' = Validation(validate_extraction(validation.extracted_data, gemini), gemini)
  /\ UNCHANGED <<rateVars, USE_OCR, requestVars, now, input_bucket, output_bucket, batch>>

NextValidate == Validate

SpecValidate == InitValidate /\ [][NextValidate]_vars

(***************************************************************************)
(* validate_file_set on its own: a list of validated documents             *)
(***************************************************************************)

\* a document as it reaches validate_file_set: an extraction result that
\* validate_extraction accepted
Survivor(text) ==
  validate_extraction([full_text |-> text, page_count |-> 3,
                       processing_method |-> "online_ocr", validation_error_code |-> "",
                       document_classification |-> ""], "YES")

FileSetDocuments ==
  {Survivor(text).extracted_data : text \in {t \in FileSetTexts : Survivor(t).is_valid}}

InitFileSet ==
  /\ USE_OCR = TRUE
  /\ NoTraffic
  /\ pc = "set"
  /\ NoRequest
  /\ NoBatch
  /\ validation = NoValidation

\* one more document in the list
AddDocument ==
  /\ pc = "set"
  /\ Len(all_extracted_data) < MaxSetSize
  /\ \E d \in FileSetDocuments :
       /\ all_extracted_data' = Append(all_extracted_data, d)
       /\ file_names' = Append(file_names, "file" \o Digit(Len(file_names) + 1) \o ".pdf")
  /\ UNCHANGED <<rateVars, USE_OCR, n_files, file_idx, pc, file, extract, validation_errors,
                 set_decision, response, now, input_bucket, output_bucket, batch,
                 validation>>

\* validate_file_set is called on the list
DecideFileSet ==
  /\ pc = "set"
  /\ set_decision' = validate_file_set(all_extracted_data, file_names)
  /\ pc' = "decided"
  /\ UNCHANGED <<rateVars, USE_OCR, n_files, file_idx, file, extract, validation_errors,
                 all_extracted_data, file_names, response, now, input_bucket,
                 output_bucket, batch, validation>>

NextFileSet == AddDocument \/ DecideFileSet

SpecFileSet == InitFileSet /\ [][NextFileSet]_vars

(***************************************************************************)
(* Concurrent batch attempts: batch_process_document running for two       *)
(* files at once (two requests served side by side), on the one clock and  *)
(* the one pair of buckets                                                 *)
(***************************************************************************)

\* the document of the attempt of worker w
ConcurrentPdf(w) == "document" \o Digit(w) \o ".pdf"

InitConc ==
  /\ USE_OCR = TRUE
  /\ NoTraffic
  /\ pc = "concurrent"
  /\ NoRequest
  /\ NoBatch
  /\ validation = NoValidation

\* worker w enters batch_process_document and reads the clock
ConcurrentBegin(w) ==
  /\ pc = "concurrent"
  /\ batch[w].pc = "idle"
  /\ batch' = [batch EXCEPT ![w] = BatchBegun(ConcurrentPdf(w), now)]
  /\ UNCHANGED <<rateVars, USE_OCR, requestVars, now, input_bucket, output_bucket, validation>>

\* time passes
Tick ==
  /\ pc = "concurrent"
  /\ now < FirstMicrosecond + MaxClockSteps
  /\ now' = now + 1
  /\ UNCHANGED <<rateVars, USE_OCR, requestVars, input_bucket, output_bucket, batch, validation>>

NextConc ==
  \/ Tick
  \/ \E w \in Workers :
       \/ ConcurrentBegin(w)
       \/ BatchUpload(w)
       \/ BatchJobCompletes(w)
       \/ BatchJobFails(w)
       \/ BatchRetrieve(w)
       \/ BatchDelete(w)
       \/ BatchDeleteFails(w)

SpecConc == InitConc /\ [][NextConc]_vars

(***************************************************************************)
(* batch_process_document on its own: one attempt for a long document      *)
(***************************************************************************)

InitBatch ==
  /\ USE_OCR \in BOOLEAN
  /\ NoTraffic
  /\ pc = "batch_only"
  /\ NoRequest
  /\ validation = NoValidation
  /\ now \in FirstMicrosecond..(FirstMicrosecond + 1)
  /\ input_bucket = <<>>
  /\ output_bucket = <<>>
  /\ batch = [w \in Workers |->
               IF w = RequestWorker THEN BatchBegun(LongPdf, now) ELSE IdleBatch]

NextBatch ==
  \/ BatchUpload(RequestWorker)
  \/ BatchJobCompletes(RequestWorker)
  \/ BatchJobFails(RequestWorker)
  \/ BatchRetrieve(RequestWorker)
  \/ BatchDelete(RequestWorker)
  \/ BatchDeleteFails(RequestWorker)

SpecBatch == InitBatch /\ [][NextBatch]_vars

(***************************************************************************)
(* rate_limit: the wrapper around analyze_document, requests handled one   *)
(* at a time                                                               *)
(***************************************************************************)

max_requests == 10

time_window == 60

\* the steps of the clock between two requests, in seconds
TickSizes == {30}

\* request_tracker[client_ip], an empty list when the key is new
Tracked(ip) == IF ip \in DOMAIN request_tracker THEN request_tracker[ip] ELSE <<>>

\* a filter that keeps a request for the whole of its sixtieth second
RecentInclusive(times, t) ==
  SelectSeq(times, LAMBDA req_time : t - req_time <= time_window)

\* [req_time for req_time in ... if now - req_time < timedelta(seconds=time_window)]
Recent(times, t) ==
  SelectSeq(times, LAMBDA req_time : t - req_time < time_window)

\* the wrapper finds max_requests recent requests of the client: 429, and the
\* filtered list is kept
RateLimitReject ==
  /\ pc = "rate_limit"
  /\ traffic.requests < MaxRequests
  /\ \E request \in Requests :
       /\ Len(Recent(Tracked(client_ip(request)), wall_clock)) >= max_requests
       /\ request_tracker' =
            (client_ip(request) :> Recent(Tracked(client_ip(request)), wall_clock))
              @@ request_tracker
       /\ traffic' = [traffic EXCEPT
                        !.requests = @ + 1,
                        !.last = [ip |-> client_ip(request), http |-> 429,
                                  code |-> "RATE_LIMITED"]]
  /\ UNCHANGED <<wall_clock, USE_OCR, requestVars, now, input_bucket, output_bucket,
                 batch, validation>>

\* the wrapper records the request and calls analyze_document, whose response
\* is returned
RateLimitAdmit ==
  /\ pc = "rate_limit"
  /\ traffic.requests < MaxRequests
  /\ \E request \in Requests :
       /\ Len(Recent(Tracked(client_ip(request)), wall_clock)) < max_requests
       /\ request_tracker' =
            (client_ip(request) :>
               Append(Recent(Tracked(client_ip(request)), wall_clock), wall_clock))
              @@ request_tracker
       /\ traffic' = [traffic EXCEPT
                        !.admitted =
                           (client_ip(request) :>
                              Append(IF client_ip(request) \in DOMAIN @
                                     THEN @[client_ip(request)] ELSE <<>>, wall_clock)) @@ @,
                        !.requests = @ + 1,
                        !.last = [ip |-> client_ip(request), http |-> 0, code |-> ""]]
  /\ UNCHANGED <<wall_clock, USE_OCR, requestVars, now, input_bucket, output_bucket,
                 batch, validation>>

\* time passes between two requests
ClockAdvances ==
  /\ pc = "rate_limit"
  /\ \E seconds \in TickSizes :
       /\ wall_clock + seconds <= MaxSeconds
       /\ wall_clock' = wall_clock + seconds
  /\ UNCHANGED <<request_tracker, traffic, USE_OCR, requestVars, now, input_bucket,
                 output_bucket, batch, validation>>

InitRate ==
  /\ USE_OCR = TRUE
  /\ NoTraffic
  /\ pc = "rate_limit"
  /\ NoRequest
  /\ NoBatch
  /\ validation = NoValidation

NextRate == RateLimitReject \/ RateLimitAdmit \/ ClockAdvances

SpecRate == InitRate /\ [][NextRate]_vars

(***************************************************************************)
(* Properties                                                              *)
(***************************************************************************)

\* C1: the batch path is entered only on an online error that signals a
\* page-limit condition; every other online error ends the call in Fatal with
\* no batch call, no upload and no job.
C1_FallbackOnlyOnPageLimit ==
  /\ extract.state = "Batch" => extract.error \in PageLimitErrors
  /\ extract.error \in OnlineErrors \ PageLimitErrors =>
        /\ extract.state = "Fatal"
        /\ extract.batch_calls = 0
        /\ batch[RequestWorker].pc = "idle"

\* C2: a file whose extraction or validation fails is recorded with a code and
\* a message and the loop goes on with the next file: each named file handled
\* adds one entry to the failures or to the survivors, a file that passes the
\* upload checks is extracted, an extraction that ends Fatal is recorded as
\* PROCESSING_ERROR with its error, and the response comes only after the
\* last file.
C2_FailureRecordedLoopContinues ==
  [][ LET n == Len(validation_errors')
          recorded ==
            /\ n = Len(validation_errors) + 1
            /\ SubSeq(validation_errors', 1, n - 1) = validation_errors
            /\ validation_errors'[n].error # ""
            /\ validation_errors'[n].message # ""
            /\ all_extracted_data' = all_extracted_data
            /\ file_names' = file_names
          kept ==
            /\ Len(all_extracted_data') = Len(all_extracted_data) + 1
            /\ Len(file_names') = Len(file_names) + 1
            /\ validation_errors' = validation_errors
          unnamed ==
            /\ validation_errors' = validation_errors
            /\ all_extracted_data' = all_extracted_data
            /\ extract' = NoExtract
      IN  /\ file_idx' # file_idx =>
                /\ file_idx <= n_files
                /\ file_idx' = file_idx + 1
                /\ pc' = "files"
                /\ response' = NoResponse
                /\ recorded \/ kept \/ unnamed
                /\ \/ extract'.online_calls = 1
                   \/ unnamed
                   \/ /\ recorded
                      /\ validation_errors'[n].error \in
                           {"FILE_TOO_LARGE", "EMPTY_FILE", "INVALID_FILE_TYPE",
                            "UNSUPPORTED_FORMAT", "INVALID_FILE_SIGNATURE"}
          /\ validation_errors' # validation_errors => file_idx' = file_idx + 1
          /\ extract'.state = "Fatal" /\ extract' # extract =>
                /\ recorded
                /\ validation_errors'[n].error = "PROCESSING_ERROR"
                /\ validation_errors'[n].message = extract'.error
          /\ response' # response => file_idx = n_files + 1 ]_vars

\* C2: the first file failed in extraction and the second file was extracted,
\* validated and kept
C2_Witness ==
  /\ file_idx = 3
  /\ Len(validation_errors) = 1
  /\ validation_errors[1].filename = "deck1.PDF"
  /\ validation_errors[1].error = "PROCESSING_ERROR"
  /\ file_names = <<"deck2.PDF">>
  /\ Len(all_extracted_data) = 1

\* the objects of the Object Stage that belong to the attempt b: its input
\* object and the objects under its output prefix
StagedObjects(b) ==
  {n \in DOMAIN input_bucket : n = b.input_blob_name}
    \cup {n \in DOMAIN output_bucket : StartsWith(n, b.gcs_output_uri_prefix)}

\* C3 as stated: once the batch extraction has returned its result, the input
\* object and the output objects of the attempt are gone and the method is
\* batch_ocr.
C3_NothingLeftAfterReturn ==
  batch[RequestWorker].pc = "returned" =>
    /\ StagedObjects(batch[RequestWorker]) = {}
    /\ batch[RequestWorker].processing_method = "batch_ocr"

\* C3 amended: once the batch extraction has returned its result, the method
\* is batch_ocr, and the input object and the output objects of the attempt
\* are gone if no delete of the cleanup failed.
C3_NothingLeftAfterCleanCleanup ==
  batch[RequestWorker].pc = "returned" =>
    /\ batch[RequestWorker].processing_method = "batch_ocr"
    /\ ~batch[RequestWorker].cleanup_failed => StagedObjects(batch[RequestWorker]) = {}

\* C3: a batch extraction of two shards has returned after a cleanup in which
\* every delete succeeded
C3_Witness ==
  /\ batch[RequestWorker].pc = "returned"
  /\ ~batch[RequestWorker].cleanup_failed
  /\ Len(batch[RequestWorker].output_blobs) = 2
  /\ batch[RequestWorker].deleted = 3
  /\ batch[RequestWorker].page_count = 40

\* C4: a delete that fails during the cleanup changes neither the result (text,
\* pages, method) nor the outcome: the call returns, and the caller takes the
\* result as a success.
C4_CleanupFailureKeepsResult ==
  [][ /\ batch[RequestWorker].pc = "cleanup" =>
            /\ batch'[RequestWorker].pc \in {"cleanup", "returned"}
            /\ BatchResult(batch'[RequestWorker]) = BatchResult(batch[RequestWorker])
            /\ batch'[RequestWorker].error = ""
      /\ batch[RequestWorker].pc = "returned" /\ batch' # batch =>
            /\ extract'.state = "Success"
            /\ \A k \in DOMAIN validation_errors' \ DOMAIN validation_errors :
                  validation_errors'[k].error # "PROCESSING_ERROR" ]_vars

\* C4: the batch extraction has returned its result after a delete of the
\* cleanup failed with objects left behind
C4_Witness ==
  /\ batch[RequestWorker].pc = "returned"
  /\ batch[RequestWorker].cleanup_failed
  /\ batch[RequestWorker].deleted = 1
  /\ StagedObjects(batch[RequestWorker]) # {}
  /\ batch[RequestWorker].processing_method = "batch_ocr"

\* C5: when the secondary classifier fails (no model, or the call raises) for a
\* file that reached Layer 6, validation fails open: the verdict is valid.
C5_ClassifierFailureFailsOpen ==
  \A k \in DOMAIN validation.verdicts :
    (validation.verdicts[k].gemini_called
       /\ validation.verdicts[k].gemini \in {"NO_MODEL", "RAISES"})
      => validation.verdicts[k].is_valid

\* the error code of layer number layer, and the layers that have run when
\* that layer has decided
LayerCode(layer) ==
  CASE layer = 1 -> {"PERSONAL_DOCUMENT"}
    [] layer = 2 -> {"NOT_BUSINESS_CONTENT"}
    [] layer = 3 -> {"INSUFFICIENT_BUSINESS_CONTENT"}
    [] layer = 4 -> {"MIXED_PERSONAL_BUSINESS"}
    [] layer = 5 -> {"INSUFFICIENT_CONTENT", "LIKELY_STRUCTURED_DOCUMENT"}
    [] OTHER     -> {"GEMINI_VALIDATION_FAILED"}

\* the rejection condition of layer number layer on the scores s of a text,
\* with answer the answer of the secondary classifier
LayerRejects(layer, s, answer) ==
  CASE layer = 1 -> s.personal_score > 80
    [] layer = 2 -> s.non_business_score > 100
    [] layer = 3 -> s.business_score < 20
    [] layer = 4 -> /\ s.business_score > 0
                    /\ s.personal_score * 10 > 15 * s.business_score
                    /\ s.personal_score > 50
    [] layer = 5 -> \/ s.word_count < 30
                    \/ s.very_short_lines * 100 > 85 * (IF s.n_lines > 1 THEN s.n_lines ELSE 1)
    [] OTHER     -> s.business_score < 30 /\ answer # "YES"

\* C6: the layers run in the order 0 to 6 and the first that rejects decides:
\* for a verdict past the preconditions, the code is that of the earliest
\* layer whose rejection condition holds on the text scored, exactly the
\* layers up to it have run, and the secondary classifier was called only if
\* no layer before Layer 6 rejected.
C6_EarliestLayerDecides ==
  \A k \in DOMAIN validation.verdicts :
    LET v == validation.verdicts[k]
        s == ScoresOf(validation.extracted_data.full_text)
        answer == IF v.gemini \in {"NO_MODEL", "RAISES"} THEN "NONE" ELSE v.gemini
        rejecting == {layer \in 1..6 : LayerRejects(layer, s, answer)}
        first == CHOOSE layer \in rejecting : \A other \in rejecting : layer <= other
    IN  v.error_code \notin {"NO_TEXT_EXTRACTED", "NO_PAGES_DETECTED"} =>
          /\ rejecting = {} => v.is_valid /\ v.error_code = "VALID"
          /\ rejecting # {} =>
                /\ ~v.is_valid
                /\ v.error_code \in LayerCode(first)
                /\ v.layers = [i \in 1..(first + 1) |-> i - 1]
          /\ v.gemini_called <=> (rejecting \cap (1..5) = {} /\ s.business_score < 30)
          /\ v.gemini_called <=> Reached(v.layers, 6)

\* C6: a text rejected by Layer 1 whose Layer 2 and Layer 3 conditions hold
\* as well
C6_Witness ==
  /\ Len(validation.verdicts) >= 1
  /\ validation.verdicts[1].error_code = "PERSONAL_DOCUMENT"
  /\ validation.verdicts[1].layers = <<0, 1>>
  /\ ScoresOf(validation.extracted_data.full_text).non_business_score > 100
  /\ ScoresOf(validation.extracted_data.full_text).business_score < 20

\* the types of the documents validate_file_set was called on
DecidedTypes == {set_decision.document_types[i].type : i \in DOMAIN set_decision.document_types}

PrimaryTypes == {"PITCH_DECK", "FINANCIAL_MODEL", "BUSINESS_PLAN", "MARKET_RESEARCH"}

\* C7: a non-empty file set whose files are all classified UNKNOWN is rejected
\* with UNKNOWN_DOCUMENTS.
C7_AllUnknownRejectedAsUnknown ==
  (pc = "decided" /\ DecidedTypes = {"UNKNOWN"}) =>
    ~set_decision.is_valid /\ set_decision.code = "UNKNOWN_DOCUMENTS"

\* C8: a file set with at least one primary document is accepted, whatever
\* accompanies the primary document and wherever it stands in the list.
C8_PrimaryAccepted ==
  (pc = "decided" /\ DecidedTypes \cap PrimaryTypes # {}) =>
    set_decision.is_valid /\ set_decision.code = "VALID"

\* C8: a set accepted with a resume first, an unknown document second and the
\* primary document last
C8_Witness ==
  /\ pc = "decided"
  /\ Len(set_decision.document_types) = 3
  /\ set_decision.document_types[1].type = "RESUME"
  /\ set_decision.document_types[2].type = "UNKNOWN"
  /\ set_decision.document_types[3].type = "PITCH_DECK"
  /\ set_decision.is_valid

\* C9: a file set with no primary document and at least one supplementary
\* document (a resume) is rejected with SUPPLEMENTARY_ONLY.
C9_SupplementaryOnlyRejected ==
  (pc = "decided" /\ DecidedTypes \cap PrimaryTypes = {} /\ "RESUME" \in DecidedTypes) =>
    ~set_decision.is_valid /\ set_decision.code = "SUPPLEMENTARY_ONLY"

\* C9: a single resume submitted alone and rejected
C9_Witness ==
  /\ pc = "decided"
  /\ Len(set_decision.document_types) = 1
  /\ set_decision.document_types[1].type = "RESUME"
  /\ set_decision.code = "SUPPLEMENTARY_ONLY"

\* the workers whose batch attempt has begun and has not ended
Running == {w \in Workers : batch[w].pc \in {"upload", "job", "retrieve", "cleanup"}}

\* C10: two batch attempts that run at the same time never have the same
\* input object name or the same output prefix, and no attempt lists or
\* deletes an object written for the input of another attempt.
C10_ConcurrentAttemptsDisjoint ==
  \A w \in Running :
    /\ \A other \in Running \ {w} :
          /\ batch[w].input_blob_name # batch[other].input_blob_name
          /\ batch[w].gcs_output_uri_prefix # batch[other].gcs_output_uri_prefix
    /\ \A k \in DOMAIN batch[w].output_blobs :
          batch[w].output_blobs[k] \in DOMAIN output_bucket =>
            output_bucket[batch[w].output_blobs[k]].of = batch[w].pdf

\* the texts of the objects named, each after a line break, smallest name
\* first
RECURSIVE TextsInNameOrder(_)
TextsInNameOrder(names) ==
  IF names = {} THEN ""
  ELSE LET first == CHOOSE n \in names : \A m \in names \ {n} : StrLess(n, m)
       IN  (IF output_bucket[first].text # "" THEN "\n" \o output_bucket[first].text
            ELSE "")
           \o TextsInNameOrder(names \ {first})

\* C11: whatever the order in which the listing returned the output objects,
\* the merged text of a batch extraction is the texts of its JSON shards in
\* ascending order of their names.
C11_MergedInNameOrder ==
  (batch[RequestWorker].pc = "cleanup" /\ batch[RequestWorker].deleted = 0) =>
    batch[RequestWorker].full_text =
      TextsInNameOrder({n \in DOMAIN output_bucket :
                          /\ StartsWith(n, batch[RequestWorker].gcs_output_uri_prefix)
                          /\ EndsWith(n, ".json")})

\* C11: three shards listed in the order 0002, 0001, 0003 and merged in the
\* order 0001, 0002, 0003
C11_Witness ==
  /\ batch[RequestWorker].pc = "cleanup" /\ batch[RequestWorker].deleted = 0
  /\ Len(batch[RequestWorker].output_blobs) = 3
  /\ EndsWith(batch[RequestWorker].output_blobs[1], "output-0002.json")
  /\ EndsWith(batch[RequestWorker].output_blobs[2], "output-0001.json")
  /\ EndsWith(batch[RequestWorker].output_blobs[3], "output-0003.json")
  /\ batch[RequestWorker].full_text =
       "\n" \o Shard1Text \o "\n" \o Shard2Text \o "\n" \o Shard3Text

\* C12: when the job fails or the wait for it times out, the batch extraction
\* ends with the error raised: it has no result, it has listed and read no
\* output, it never goes on to the retrieval or the cleanup, and the
\* extraction of the file ends Fatal with that error, recorded for the file
\* as PROCESSING_ERROR.
C12_JobFailureIsTerminal ==
  [][ /\ BatchJobFails(RequestWorker) =>
           /\ batch'[RequestWorker].pc = "raised"
           /\ batch'[RequestWorker].error # ""
           /\ batch'[RequestWorker].output_blobs = <<>>
           /\ batch'[RequestWorker].full_text = ""
           /\ batch'[RequestWorker].processing_method = ""
      /\ batch[RequestWorker].pc = "raised" =>
           /\ batch'[RequestWorker].pc = "idle"
           /\ extract'.state = "Fatal"
           /\ extract'.error = batch[RequestWorker].error
           /\ all_extracted_data' = all_extracted_data
           /\ validation_errors' =
                Append(validation_errors,
                       [filename |-> file.filename, error |-> "PROCESSING_ERROR",
                        message |-> batch[RequestWorker].error])
           /\ UNCHANGED <<input_bucket, output_bucket>>
    ]_vars

\* C12: the wait timed out while the job had written a shard; the shard is
\* still in the output bucket, unread, and the file is recorded as failed
C12_Witness ==
  /\ extract.state = "Fatal" /\ extract.batch_calls = 1
  /\ extract.error = JobTimeout
  /\ output_bucket # <<>>
  /\ all_extracted_data = <<>>
  /\ Len(validation_errors) = 1
  /\ validation_errors[1].error = "PROCESSING_ERROR"
  /\ validation_errors[1].message = JobTimeout

\* C13: while the files are processed the request has no response; when the
\* file loop is over the request fails (error response, HTTP 400) exactly
\* when no file survived (NO_VALID_FILES) or the surviving set fails the
\* file-set validation (its code), and otherwise the surviving files go on
\* to the analysis unchanged, whatever number of files failed.
C13_FailsOnlyWithoutSurvivorsOrBadSet ==
  [][ /\ pc \in {"files", "batch"} => response = NoResponse
      /\ (pc = "files" /\ pc' \in {"done", "analysis"}) =>
           /\ file_idx > n_files
           /\ UNCHANGED <<all_extracted_data, file_names, validation_errors>>
           /\ IF all_extracted_data = <<>>
              THEN /\ pc' = "done"
                   /\ response'.status = "error" /\ response'.http = 400
                   /\ response'.code = "NO_VALID_FILES"
              ELSE IF ~validate_file_set(all_extracted_data, file_names).is_valid
              THEN /\ pc' = "done"
                   /\ response'.status = "error" /\ response'.http = 400
                   /\ response'.code = validate_file_set(all_extracted_data, file_names).code
              ELSE pc' = "analysis" /\ response' = NoResponse
    ]_vars

\* C13: of two files one failed and the other, a pitch deck, survived and
\* has gone on to the analysis
C13_Witness ==
  /\ pc = "analysis"
  /\ n_files = 2
  /\ Len(validation_errors) = 1
  /\ Len(all_extracted_data) = 1
  /\ set_decision.is_valid
  /\ response = NoResponse

\* C14: the response of a request in which a file failed, be it the success
\* response or an error response of the intake pipeline, lists every failed
\* file with its error code and message.
C14_ResponseListsFailedFiles ==
  (/\ pc = "done"
   /\ validation_errors # <<>>
   /\ response.status = "success" \/ response.http = 400) =>
    response.details = validation_errors

\* C15 as stated: an extraction result with page_count = 0 is rejected with
\* NO_PAGES_DETECTED whatever its text, and no scoring layer has run.
C15_ZeroPagesAlwaysNoPages ==
  \A k \in DOMAIN validation.verdicts :
    validation.extracted_data.page_count = 0 =>
      /\ validation.verdicts[k].error_code = "NO_PAGES_DETECTED"
      /\ validation.verdicts[k].layers = <<>>

\* C15 amended: an extraction result with page_count = 0 is rejected before
\* any scoring layer runs, with NO_PAGES_DETECTED when its sanitized text has
\* at least 50 characters and with NO_TEXT_EXTRACTED when it has fewer.
C15_ZeroPagesRejectedBeforeLayers ==
  \A k \in DOMAIN validation.verdicts :
    validation.extracted_data.page_count = 0 =>
      /\ ~validation.verdicts[k].is_valid
      /\ validation.verdicts[k].layers = <<>>
      /\ ~validation.verdicts[k].gemini_called
      /\ validation.verdicts[k].error_code =
           IF Len(validation.extracted_data.full_text) < MIN_EXTRACTED_TEXT
           THEN "NO_TEXT_EXTRACTED" ELSE "NO_PAGES_DETECTED"

\* C15: a text that the layers would accept, with no pages, rejected with
\* NO_PAGES_DETECTED
C15_Witness ==
  /\ Len(validation.verdicts) >= 1
  /\ validation.extracted_data.page_count = 0
  /\ validation.verdicts[1].error_code = "NO_PAGES_DETECTED"
  /\ ScoresOf(validation.extracted_data.full_text).business_score >= 30
  /\ ScoresOf(validation.extracted_data.full_text).personal_score = 0

\* C16: a call of the validator on a text whose sanitized form (the text
\* sanitize_extracted_text makes of it, kept with its scores) has fewer than
\* 50 characters returns NO_TEXT_EXTRACTED, with no layer run, whatever the
\* page count and however long the text was before it was sanitized.
C16_ShortTextNoText ==
  [][ (/\ pc = "validate"
       /\ Len(validation'.verdicts) = Len(validation.verdicts) + 1
       /\ Len(ScoresOf(validation.extracted_data.full_text).full_text)
            < MIN_EXTRACTED_TEXT) =>
        /\ ~validation'.verdicts[Len(validation'.verdicts)].is_valid
        /\ validation'.verdicts[Len(validation'.verdicts)].error_code = "NO_TEXT_EXTRACTED"
        /\ validation'.verdicts[Len(validation'.verdicts)].layers = <<>>
    ]_vars

\* C16: a text of 54 characters with three pages, 49 characters long once
\* the form feed is removed and the white space collapsed, rejected with
\* NO_TEXT_EXTRACTED
C16_Witness ==
  /\ Len(validation.verdicts) >= 1
  /\ validation.extracted_data.page_count = 3
  /\ validation.extracted_data.full_text =
       "A product feature list. Budget and forecast plan."
  /\ validation.verdicts[1].error_code = "NO_TEXT_EXTRACTED"

\* the number of keywords of each Layer-1 category found in the lower-case
\* form of each sanitized validator text
PersonalHits ==
  [text \in {sanitize_extracted_text(t) : t \in ValidatorTexts} |->
     [category \in DOMAIN personal_indicators |->
        KeywordMatches(personal_indicators[category].keywords, lower(text))]]

\* the sanitized validator texts with three or more business context
\* keywords: Layer 0 suppresses their medical category
SuppressedTexts ==
  {text \in {sanitize_extracted_text(t) : t \in ValidatorTexts} :
     KeywordMatches(business_context_keywords, lower(text)) >= 3}

\* hits * weight (in tenths) of a category that has at least three hits
Qualifying(hits, weight) == IF hits >= 3 THEN hits * weight ELSE 0

\* the personal score the specification gives a text: the qualifying
\* categories with their weights 3.0, 2.5, 2.8, 2.5, 3.5 and 1.5, the medical
\* category left out when it is suppressed
ExpectedPersonalScore(hits, suppressed) ==
    Qualifying(hits.identity_docs, 30)
  + (IF suppressed THEN 0 ELSE Qualifying(hits.personal_medical, 25))
  + Qualifying(hits.personal_financial, 28)
  + Qualifying(hits.personal_legal, 25)
  + Qualifying(hits.resume_cv, 35)
  + Qualifying(hits.personal_photos, 15)

AllKeywords(indicators) == UNION {indicators[c].keywords : c \in DOMAIN indicators}

\* the text has the business keywords "revenue", "team" and "product" and no
\* other, and no keyword of Layer 1 or Layer 2
OnlyRevenueTeamProduct(text_lower) ==
  /\ Contains(text_lower, "revenue") /\ Contains(text_lower, "team")
  /\ Contains(text_lower, "product")
  /\ \A kw \in AllKeywords(business_indicators) \ {"revenue", "team", "product"} :
        ~Contains(text_lower, kw)
  /\ \A kw \in AllKeywords(personal_indicators) \cup AllKeywords(non_business_indicators) :
        ~Contains(text_lower, kw)

RevenueTeamProductTexts ==
  {text \in {sanitize_extracted_text(t) : t \in ValidatorTexts} :
     OnlyRevenueTeamProduct(lower(text))}

\* those of them that have 50 characters and 30 words
LongRevenueTeamProductTexts ==
  {text \in RevenueTeamProductTexts :
     Len(text) >= MIN_EXTRACTED_TEXT /\ WordCount(text) >= 30}

\* C18 as stated: every text whose business hits are "revenue", "team" and
\* "product" and that has no personal and no non-business keyword is valid.
C18_RevenueTeamProductValid ==
  \A k \in DOMAIN validation.verdicts :
    validation.extracted_data.full_text \in RevenueTeamProductTexts =>
      validation.verdicts[k].is_valid

\* C18 amended: such a text is valid, with no call of the secondary
\* classifier, when it passes the preconditions (50 characters, a page) and
\* has at least 30 words.
C18_LongRevenueTeamProductValid ==
  \A k \in DOMAIN validation.verdicts :
    (/\ validation.extracted_data.full_text \in LongRevenueTeamProductTexts
     /\ validation.extracted_data.page_count > 0) =>
      /\ validation.verdicts[k].is_valid
      /\ validation.verdicts[k].error_code = "VALID"
      /\ validation.verdicts[k].scores.business_score = 34
      /\ ~validation.verdicts[k].gemini_called

\* C18: "Revenue, team and product." followed by thirty words without a
\* keyword, three pages, accepted
C18_Witness ==
  /\ Len(validation.verdicts) >= 1
  /\ validation.extracted_data.full_text = "Revenue, team and product. " \o Filler30
  /\ validation.extracted_data.full_text \in RevenueTeamProductTexts
  /\ validation.extracted_data.page_count = 3
  /\ validation.verdicts[1].is_valid

\* C19: the calls of the validator on one extraction result, the later ones
\* on the text the first wrote back, all return the same verdict: the same
\* is_valid, error code and message.
C19_ValidateIdempotent ==
  \A j, k \in DOMAIN validation.verdicts :
    /\ validation.verdicts[j].is_valid = validation.verdicts[k].is_valid
    /\ validation.verdicts[j].error_code = validation.verdicts[k].error_code
    /\ validation.verdicts[j].message = validation.verdicts[k].message

\* the rules of the classifier in their order, with their thresholds
RuleTypes == <<"RESUME", "PITCH_DECK", "FINANCIAL_MODEL", "BUSINESS_PLAN", "MARKET_RESEARCH">>

RuleThresholds == <<2, 2, 3, 2, 2>>

\* for each document of the file-set validator, the number of keywords of
\* each rule found in its lower-case text
RuleHits ==
  [text \in {d.full_text : d \in FileSetDocuments} |->
     << KeywordMatches(resume_keywords, lower(text)),
        KeywordMatches(pitch_keywords, lower(text)),
        KeywordMatches(financial_keywords, lower(text)),
        KeywordMatches(business_keywords, lower(text)),
        KeywordMatches(market_keywords, lower(text)) >>]

\* the rules whose threshold the text meets
RulesMet(text) == {r \in 1..5 : RuleHits[text][r] >= RuleThresholds[r]}

\* C20: the type of every classified document is that of the first rule, in
\* the order RESUME, PITCH_DECK, FINANCIAL_MODEL, BUSINESS_PLAN,
\* MARKET_RESEARCH, whose threshold its text meets, however many hits the
\* later rules have, and UNKNOWN when it meets none; is_primary is true
\* exactly for the four primary types.
C20_FirstMatchingRuleWins ==
  pc = "decided" =>
    \A i \in DOMAIN set_decision.document_types :
      /\ IF RulesMet(all_extracted_data[i].full_text) = {}
         THEN set_decision.document_types[i].type = "UNKNOWN"
         ELSE \E r \in RulesMet(all_extracted_data[i].full_text) :
                /\ \A q \in RulesMet(all_extracted_data[i].full_text) : r <= q
                /\ set_decision.document_types[i].type = RuleTypes[r]
      /\ set_decision.document_types[i].is_primary
           <=> set_decision.document_types[i].type \in PrimaryTypes

\* C20: a text with two resume hits and five pitch hits classified RESUME,
\* not primary
C20_Witness ==
  /\ pc = "decided"
  /\ Len(set_decision.document_types) = 1
  /\ RuleHits[all_extracted_data[1].full_text][1] = 2
  /\ RuleHits[all_extracted_data[1].full_text][2] = 5
  /\ set_decision.document_types[1].type = "RESUME"
  /\ ~set_decision.document_types[1].is_primary

\* the validator texts more than 85 % of whose lines, as extracted, are short
\* (stripped length below 20 and not empty)
ShortLineTexts ==
  {text \in ValidatorTexts :
     very_short_lines(StrippedLineLengths(text)) * 100
       > 85 * (IF Len(StrippedLineLengths(text)) > 1 THEN Len(StrippedLineLengths(text))
               ELSE 1)}

\* C21: a call of the validator on an extracted text whose short_line_ratio
\* exceeds 0.85 and that passes the layers 1 to 4 and the word-count check
\* returns LIKELY_STRUCTURED_DOCUMENT.
C21_StructuredTextRejected ==
  [][ (/\ pc = "validate"
       /\ Len(validation'.verdicts) = Len(validation.verdicts) + 1
       /\ validation.extracted_data.full_text \in ShortLineTexts
       /\ Reached(validation'.verdicts[Len(validation'.verdicts)].layers, 5)
       /\ validation'.verdicts[Len(validation'.verdicts)].error_code
            # "INSUFFICIENT_CONTENT") =>
        validation'.verdicts[Len(validation'.verdicts)].error_code
          = "LIKELY_STRUCTURED_DOCUMENT"
    ]_vars

OtherPersonalCategories(hits) ==
    Qualifying(hits.identity_docs, 30) + Qualifying(hits.personal_financial, 28)
  + Qualifying(hits.personal_legal, 25) + Qualifying(hits.resume_cv, 35)
  + Qualifying(hits.personal_photos, 15)

RequestsOcr(config) == "enable_ocr" \in DOMAIN config /\ config.enable_ocr

RequestsImageless(config) == "use_native_text" \in DOMAIN config /\ config.use_native_text

\* C25: the online request asks for OCR mode when USE_OCR is true and for
\* imageless mode when it is false, and the result is labelled online_ocr or
\* online_imageless accordingly.
C25_RequestFollowsFlag ==
  extract.online_calls = 1 =>
    /\ IF USE_OCR THEN RequestsOcr(extract.ocr_config)
                  ELSE RequestsImageless(extract.ocr_config)
    /\ \A k \in DOMAIN all_extracted_data :
         all_extracted_data[k].processing_method \in
           {IF USE_OCR THEN "online_ocr" ELSE "online_imageless", "batch_ocr"}

\* C25: what the code does: the request carries the same OCR settings for
\* either value of the flag, and only the label of the result follows it
C25_RequestIgnoresFlag ==
  extract.online_calls = 1 =>
    /\ extract.ocr_config = ocr_config
    /\ ~RequestsOcr(extract.ocr_config) /\ ~RequestsImageless(extract.ocr_config)
    /\ \A k \in DOMAIN all_extracted_data :
         all_extracted_data[k].processing_method \in
           {IF USE_OCR THEN "online_ocr" ELSE "online_imageless", "batch_ocr"}

\* C25: an online call succeeded with the flag true and one with the flag false
C25_Witness ==
  /\ extract.state = "Success" /\ extract.batch_calls = 0
  /\ USE_OCR
  /\ Len(all_extracted_data) >= 1
  /\ all_extracted_data[Len(all_extracted_data)].processing_method = "online_ocr"

\* str(e) of the failures of batch_process_document after the upload
FailuresAfterUpload ==
  { "400 invalid batch request", "batch operation failed", JobTimeout,
    "No output files found in GCS.",
    "Could not find any JSON output files from batch processing.",
    "Failed to parse Document from JSON" }

\* C26: when batch_process_document fails after the upload (submission, job,
\* timeout, empty listing, no JSON shard, shard that does not parse) the
\* cleanup is not executed: the call ends raised with no delete issued, the
\* input object is staged, and the failing step removes no object.
C26_FailureAfterUploadSkipsCleanup ==
  /\ [](\A w \in Workers :
          batch[w].error \in FailuresAfterUpload =>
            /\ batch[w].pc = "raised"
            /\ batch[w].deleted = 0 /\ ~batch[w].cleanup_failed
            /\ batch[w].input_blob_name \in DOMAIN input_bucket)
  /\ [][\A w \in Workers :
          (batch[w].error = "" /\ batch'[w].error \in FailuresAfterUpload) =>
            /\ input_bucket' = input_bucket
            /\ \A n \in DOMAIN output_bucket : n \in DOMAIN output_bucket']_vars

\* C26: a shard did not parse: the call raised, and the input object and the
\* two output objects of the job are staged
C26_Witness ==
  /\ batch[RequestWorker].pc = "raised"
  /\ batch[RequestWorker].error = "Failed to parse Document from JSON"
  /\ batch[RequestWorker].deleted = 0
  /\ batch[RequestWorker].input_blob_name \in DOMAIN input_bucket
  /\ Cardinality({n \in DOMAIN output_bucket :
                    StartsWith(n, batch[RequestWorker].gcs_output_uri_prefix)}) >= 1

\* is target number k of the cleanup of b in the Object Stage
TargetStaged(b, k) ==
  IF k = 1 THEN CleanupTargets(b)[k] \in DOMAIN input_bucket
           ELSE CleanupTargets(b)[k] \in DOMAIN output_bucket

\* C27: the cleanup deletes the input object first and then the listed output
\* objects one by one, in the listed order, and stops at the first delete that
\* fails: the targets before the failing delete are gone, and every target
\* from it on is left in the Object Stage.
C27_CleanupStopsAtFirstFailure ==
  /\ [](\A w \in Workers :
          batch[w].pc \in {"cleanup", "returned"} =>
            /\ CleanupTargets(batch[w])[1] = batch[w].input_blob_name
            /\ \A k \in 2..Len(CleanupTargets(batch[w])) :
                  CleanupTargets(batch[w])[k] = batch[w].output_blobs[k - 1]
            /\ \A k \in 1..Len(CleanupTargets(batch[w])) :
                  TargetStaged(batch[w], k) <=> k > batch[w].deleted
            /\ batch[w].cleanup_failed =>
                  /\ batch[w].pc = "returned"
                  /\ batch[w].deleted < Len(CleanupTargets(batch[w])))
  /\ [][\A w \in Workers :
          batch[w].pc = "cleanup" =>
            /\ batch'[w].deleted \in {batch[w].deleted, batch[w].deleted + 1}
            /\ batch'[w].deleted = batch[w].deleted <=> batch'[w].cleanup_failed
            /\ batch'[w].deleted = batch[w].deleted =>
                  input_bucket' = input_bucket /\ output_bucket' = output_bucket]_vars

\* C27: the delete of the second of five listed output objects failed: the
\* input object and the first output object are gone, the other four are left
C27_Witness ==
  /\ batch[RequestWorker].pc = "returned"
  /\ batch[RequestWorker].cleanup_failed
  /\ Len(batch[RequestWorker].output_blobs) >= 3
  /\ batch[RequestWorker].deleted = 2
  /\ batch[RequestWorker].input_blob_name \notin DOMAIN input_bucket
  /\ batch[RequestWorker].output_blobs[1] \notin DOMAIN output_bucket
  /\ \A k \in 2..Len(batch[RequestWorker].output_blobs) :
        batch[RequestWorker].output_blobs[k] \in DOMAIN output_bucket

\* the resume keyword hits of the Document Role Classifier on the texts the
\* validator writes back
ResumeHits ==
  [text \in {sanitize_extracted_text(t) : t \in ValidatorTexts} |->
     KeywordMatches(resume_keywords, lower(text))]

\* C28: a file that passes the Content Validator and is classified RESUME has
\* exactly 2 resume keyword hits: no text with 3 or more hits is valid, and
\* one that reaches the layers is rejected PERSONAL_DOCUMENT by Layer 1.
C28_ValidResumeHasTwoHits ==
  /\ resume_keywords \subseteq personal_indicators.resume_cv.keywords
  /\ 3 * personal_indicators.resume_cv.weight > 80
  /\ \A k \in DOMAIN validation.verdicts :
    /\ validation.verdicts[k].is_valid =>
          /\ ResumeHits[validation.extracted_data.full_text] <= 2
          /\ classify_document_type(validation.extracted_data.full_text, "").type = "RESUME"
               => ResumeHits[validation.extracted_data.full_text] = 2
    /\ ( /\ validation.verdicts[k].layers # <<>>
         /\ ResumeHits[validation.extracted_data.full_text] >= 3 ) =>
          /\ validation.verdicts[k].error_code = "PERSONAL_DOCUMENT"
          /\ validation.verdicts[k].layers = <<0, 1>>

\* C28: a text with the two resume keywords resume and cv passed the
\* validator and is classified RESUME
C28_Witness ==
  /\ Len(validation.verdicts) >= 1
  /\ validation.verdicts[1].is_valid
  /\ ResumeHits[validation.extracted_data.full_text] = 2
  /\ classify_document_type(validation.extracted_data.full_text, "").type = "RESUME"

\* C28: a text with four resume keywords was rejected by Layer 1
C28_RejectedWitness ==
  /\ Len(validation.verdicts) >= 1
  /\ validation.verdicts[1].error_code = "PERSONAL_DOCUMENT"
  /\ ResumeHits[validation.extracted_data.full_text] = 4
  /\ validation.verdicts[1].scores.personal_score = 140

\* the stages of batch_process_document in the order of its code
BatchRank ==
  [stage \in {"idle", "upload", "job", "retrieve", "cleanup", "returned", "raised"} |->
     CASE stage = "idle" -> 0 [] stage = "upload" -> 1 [] stage = "job" -> 2
       [] stage = "retrieve" -> 3 [] stage = "cleanup" -> 4 [] OTHER -> 5]

\* C29: a call of extract makes exactly one online attempt and at most one
\* batch attempt, neither is made again, and the call ends in one terminal
\* state, Success or Fatal, the batch wait completing or timing out.
C29_OneAttemptEachOneEnd ==
  /\ []( /\ extract.state \in {"Start", "Batch", "Success", "Fatal"}
         /\ extract.state = "Start" => extract.online_calls = 0 /\ extract.batch_calls = 0
         /\ extract.state # "Start" => extract.online_calls = 1 /\ extract.batch_calls \in {0, 1}
         /\ extract.state = "Batch" <=> batch[RequestWorker].pc # "idle"
         /\ extract.state = "Batch" => extract.batch_calls = 1 )
  /\ [][ /\ extract.state = "Batch" =>
              /\ extract'.state \in {"Batch", "Success", "Fatal"}
              /\ extract'.online_calls = 1 /\ extract'.batch_calls = 1
              /\ extract'.state = "Batch" => file_idx' = file_idx
         /\ batch'[RequestWorker].pc # batch[RequestWorker].pc =>
              \/ BatchRank[batch'[RequestWorker].pc] > BatchRank[batch[RequestWorker].pc]
              \/ /\ batch'[RequestWorker].pc = "idle"
                 /\ extract'.state \in {"Success", "Fatal"} ]_vars
  /\ (extract.state = "Batch") ~> (extract.state \in {"Success", "Fatal"})

\* C29: a call made its online attempt, fell back to its one batch attempt and
\* ended in Success
C29_Witness ==
  /\ extract.state = "Success"
  /\ extract.online_calls = 1 /\ extract.batch_calls = 1
  /\ page_limit_signal(extract.error) = FALSE
  /\ batch[RequestWorker].pc = "idle"
  /\ Len(file_names) + Len(validation_errors) = file_idx - 1

\* the times of the requests of the client that were let through
AdmittedAt(ip) == IF ip \in DOMAIN traffic.admitted THEN traffic.admitted[ip] ELSE <<>>

\* the requests of the client let through less than time_window seconds
\* before t
YoungerThan(ip, t) ==
  Cardinality({j \in DOMAIN AdmittedAt(ip) : t - AdmittedAt(ip)[j] < time_window})

\* C30: with requests handled one at a time, a client IP has at most 10
\* requests let through in any window of 60 seconds and the tracker never
\* holds more than 10 times for it; a request is rejected with RATE_LIMITED
\* (429) exactly when 10 requests of its IP were let through less than 60
\* seconds ago, and a rejected request is not recorded.
C30_AtMostTenPerWindow ==
  /\ []( /\ \A ip \in DOMAIN request_tracker : Len(request_tracker[ip]) <= max_requests
         /\ \A ip \in DOMAIN traffic.admitted :
              \A i \in DOMAIN traffic.admitted[ip] :
                Cardinality({j \in DOMAIN traffic.admitted[ip] :
                               /\ traffic.admitted[ip][i] <= traffic.admitted[ip][j]
                               /\ traffic.admitted[ip][j] < traffic.admitted[ip][i] + time_window})
                  <= max_requests )
  /\ [][ traffic'.requests = traffic.requests + 1 =>
           /\ YoungerThan(traffic'.last.ip, wall_clock) <= max_requests
           /\ traffic'.last.http = 429
                <=> YoungerThan(traffic'.last.ip, wall_clock) = max_requests
           /\ traffic'.last.http = 429 =>
                /\ traffic'.last.code = "RATE_LIMITED"
                /\ traffic'.admitted = traffic.admitted
                /\ Len(request_tracker'[traffic'.last.ip]) = max_requests
                /\ \A k \in DOMAIN request_tracker'[traffic'.last.ip] :
                      wall_clock - request_tracker'[traffic'.last.ip][k] \in 0..(time_window - 1)
           /\ traffic'.last.http # 429 =>
                /\ Len(traffic'.admitted[traffic'.last.ip])
                     = Len(AdmittedAt(traffic'.last.ip)) + 1
                /\ Len(request_tracker'[traffic'.last.ip])
                     = YoungerThan(traffic'.last.ip, wall_clock) + 1
                /\ request_tracker'[traffic'.last.ip][Len(request_tracker'[traffic'.last.ip])]
                     = wall_clock
           /\ \A ip \in DOMAIN request_tracker \ {traffic'.last.ip} :
                /\ request_tracker'[ip] = request_tracker[ip]
                /\ traffic'.admitted[ip] = traffic.admitted[ip] ]_vars

\* C30: ten requests of one client were let through at second 0, an eleventh
\* was rejected, and the twelfth was let through at second 60
C30_Witness ==
  /\ traffic.requests = 12
  /\ DOMAIN traffic.admitted = {"203.0.113.7"}
  /\ Len(traffic.admitted["203.0.113.7"]) = 11
  /\ traffic.last.http # 429
  /\ wall_clock = 60
  /\ request_tracker["203.0.113.7"] = <<60>>

\* C30: a request was rejected with ten times in the tracker
C30_RejectedWitness ==
  /\ traffic.last.http = 429 /\ traffic.last.code = "RATE_LIMITED"
  /\ Len(request_tracker[traffic.last.ip]) = 10
  /\ wall_clock = 30

====
